---- MODULE Spec2Model ----
(***************************************************************************)
(* The Task aggregate of ddd-task, its status value object and the domain  *)
(* services that wrap it (TaskAssignmentService, StatusTransitionService,  *)
(* DeadlineEnforcementService).                                            *)
(*                                                                         *)
(* One Task object is followed through its life.  Every method is a pure   *)
(* operator from the receiver (and arguments) to the receiver afterwards   *)
(* and the returned error; every action is one call of a method.  Time is  *)
(* counted in whole days.  Wall-clock stamps that no operation ever reads  *)
(* (createdAt, updatedAt, occurredAt, assignedAt, CompletionTime) are not  *)
(* carried.  A nil-pointer dereference is a Go run-time panic: the call    *)
(* ends with Panic and the receiver keeps what was written before it.      *)
(***************************************************************************)
EXTENDS Integers, Sequences, FiniteSets, TLC

VARIABLES task, last, now,
          heap, taskRepo, project, projectRepo, subscribers, delivered, procs,
          active

\* the application layer: Task objects in memory, the repositories' maps, the
\* publisher's subscriptions and the command handlers that are running
\* active: the users of the user repository whose active flag is set
hvars == <<heap, taskRepo, project, projectRepo, subscribers, delivered, procs, active>>

vars == <<task, last, now, heap, taskRepo, project, projectRepo, subscribers,
          delivered, procs, active>>

(***************************************************************************)
(* Bounds of the model.                                                    *)
(***************************************************************************)
MaxEvents == 2
MaxComments == 1
MaxTime == 1
\* a command is taken up only while the events it can add fit in the queue
MaxQueue == 3
\* the last day of the clock where deadlines are constructed
MaxClock == 9
\* the longest list of events handed to PublishAll
MaxList == 3
\* the largest number of handlers subscribed to one event kind
MaxHandlers == 2
\* the largest number of status events kept in the record of a task's past
MaxRecorded == 7

(***************************************************************************)
(* Values.                                                                 *)
(***************************************************************************)
Nil == [nil |-> TRUE]

NoError == "nil"
Panic == "panic: nil pointer dereference"

TaskStatusBacklog == "BACKLOG"
TaskStatusToDo == "TO_DO"
TaskStatusInProgress == "IN_PROGRESS"
TaskStatusInReview == "IN_REVIEW"
TaskStatusCompleted == "COMPLETED"
TaskStatusCancelled == "CANCELLED"

PriorityLow == "LOW"
PriorityMedium == "MEDIUM"
PriorityHigh == "HIGH"
PriorityCritical == "CRITICAL"

\* TaskStatus.IsValid
TaskStatus_IsValid(t) ==
    t \in {TaskStatusBacklog, TaskStatusToDo, TaskStatusInProgress,
           TaskStatusInReview, TaskStatusCompleted, TaskStatusCancelled}

\* Priority.IsValid
Priority_IsValid(p) ==
    p \in {PriorityLow, PriorityMedium, PriorityHigh, PriorityCritical}

\* the map literal of TaskStatus.CanTransitionTo
validTransitions ==
    [s \in {TaskStatusBacklog, TaskStatusToDo, TaskStatusInProgress,
            TaskStatusInReview, TaskStatusCompleted, TaskStatusCancelled} |->
        CASE s = TaskStatusBacklog -> <<TaskStatusToDo, TaskStatusCancelled>>
          [] s = TaskStatusToDo -> <<TaskStatusInProgress, TaskStatusBacklog, TaskStatusCancelled>>
          [] s = TaskStatusInProgress -> <<TaskStatusInReview, TaskStatusToDo, TaskStatusCancelled>>
          [] s = TaskStatusInReview -> <<TaskStatusCompleted, TaskStatusInProgress, TaskStatusCancelled>>
          [] s = TaskStatusCompleted -> << >>
          [] s = TaskStatusCancelled -> << >>]


\* CanTransitionTo that also lets a status move to itself
CanTransitionTo_Reflexive(t, target) ==
    IF t \notin DOMAIN validTransitions
    THEN FALSE
    ELSE \/ \E i \in 1..Len(validTransitions[t]) : validTransitions[t][i] = target
         \/ t = target

\* CanTransitionTo that lets a cancelled task be reopened
CanTransitionTo_Reopen(t, target) ==
    IF t \notin DOMAIN validTransitions
    THEN FALSE
    ELSE \/ \E i \in 1..Len(validTransitions[t]) : validTransitions[t][i] = target
         \/ (t = TaskStatusCancelled /\ target = TaskStatusToDo)

\* CanTransitionTo that lets a task in progress be completed without a review
CanTransitionTo_SkipReview(t, target) ==
    IF t \notin DOMAIN validTransitions
    THEN FALSE
    ELSE \/ \E i \in 1..Len(validTransitions[t]) : validTransitions[t][i] = target
         \/ (t = TaskStatusInProgress /\ target = TaskStatusCompleted)

\* TaskStatus.CanTransitionTo
TaskStatus_CanTransitionTo(t, target) ==
    IF t \notin DOMAIN validTransitions
    THEN FALSE
    ELSE \E i \in 1..Len(validTransitions[t]) : validTransitions[t][i] = target

\* Deadline.IsOverdue: dueDate.Before(time.Now())
Deadline_IsOverdue(d, clock) == d.dueDate < clock

\* Deadline.DaysUntilDue
Deadline_DaysUntilDue(d, clock) == d.dueDate - clock

(***************************************************************************)
(* Domain events.                                                          *)
(***************************************************************************)
NewTaskCreatedEvent(taskID, projectID, title, description, assigneeID, priority) ==
    [eventType |-> "TaskCreated", aggregateID |-> taskID, ProjectID |-> projectID,
     Title |-> title, Description |-> description, AssigneeID |-> assigneeID,
     Priority |-> priority]

NewTaskAssignedEvent(taskID, assigneeID, previousAssigneeID) ==
    [eventType |-> "TaskAssigned", aggregateID |-> taskID,
     AssigneeID |-> assigneeID, PreviousAssigneeID |-> previousAssigneeID]

NewTaskStatusChangedEvent(taskID, oldStatus, newStatus) ==
    [eventType |-> "TaskStatusChanged", aggregateID |-> taskID,
     OldStatus |-> oldStatus, NewStatus |-> newStatus]

NewTaskDeadlineSetEvent(taskID, dueDate) ==
    [eventType |-> "TaskDeadlineSet", aggregateID |-> taskID, DueDate |-> dueDate]

NewTaskOverdueEvent(taskID, daysOverdue) ==
    [eventType |-> "TaskOverdue", aggregateID |-> taskID, DaysOverdue |-> daysOverdue]

NewTaskCompletedEvent(taskID, completedBy) ==
    [eventType |-> "TaskCompleted", aggregateID |-> taskID, CompletedBy |-> completedBy]

(***************************************************************************)
(* Entities owned by the task.                                             *)
(***************************************************************************)
\* entity.NewAssignment: the zero UserID is ""
NewAssignment(taskID, assigneeID, assignedBy) ==
    IF assigneeID = ""
    THEN [ptr |-> Nil, err |-> "assignee cannot be empty"]
    ELSE [ptr |-> [taskID |-> taskID, assigneeID |-> assigneeID, assignedBy |-> assignedBy],
          err |-> NoError]

(***************************************************************************)
(* The Task aggregate.  Each method yields [task, err].                    *)
(***************************************************************************)
Ret(t, e) == [task |-> t, err |-> e]


\* NewTask that starts the task in BACKLOG
NewTask_Backlog(id, projectID, title, description, priority, createdBy) ==
    IF title = "" THEN Ret(Nil, "task title cannot be empty")
    ELSE IF ~Priority_IsValid(priority) THEN Ret(Nil, "invalid priority")
    ELSE Ret([id |-> id,
              projectID |-> projectID,
              title |-> title,
              description |-> description,
              status |-> TaskStatusBacklog,
              priority |-> priority,
              assignee |-> Nil,
              deadline |-> Nil,
              comments |-> << >>,
              createdBy |-> createdBy,
              domainEvents |-> <<NewTaskCreatedEvent(id, projectID, title, description,
                                                    "", priority)>>],
             NoError)

NewTask(id, projectID, title, description, priority, createdBy) ==
    IF title = "" THEN Ret(Nil, "task title cannot be empty")
    ELSE IF ~Priority_IsValid(priority) THEN Ret(Nil, "invalid priority")
    ELSE Ret([id |-> id,
              projectID |-> projectID,
              title |-> title,
              description |-> description,
              status |-> TaskStatusToDo,
              priority |-> priority,
              assignee |-> Nil,
              deadline |-> Nil,
              comments |-> << >>,
              createdBy |-> createdBy,
              domainEvents |-> <<NewTaskCreatedEvent(id, projectID, title, description,
                                                    "", priority)>>],
             NoError)

Task_DomainEvents(t) == t.domainEvents

\* ClearDomainEvents that leaves the queue as it is
Task_ClearDomainEvents_Keeps(t) == t

Task_ClearDomainEvents(t) == [t EXCEPT !.domainEvents = << >>]

\* Assign that forgets who held the task before
Task_Assign_NoPrevious(t, assigneeID, assignedBy) ==
    LET assignment == NewAssignment(t.id, assigneeID, assignedBy)
    IN  IF assignment.err # NoError
        THEN Ret(t, assignment.err)
        ELSE Ret([t EXCEPT !.assignee = assignment.ptr,
                           !.domainEvents = Append(@, NewTaskAssignedEvent(
                                t.id, assigneeID, ""))],
                 NoError)

Task_Assign(t, assigneeID, assignedBy) ==
    LET previousAssigneeID == IF t.assignee # Nil THEN t.assignee.assigneeID ELSE ""
        assignment == NewAssignment(t.id, assigneeID, assignedBy)
    IN  IF assignment.err # NoError
        THEN Ret(t, assignment.err)
        ELSE Ret([t EXCEPT !.assignee = assignment.ptr,
                           !.domainEvents = Append(@, NewTaskAssignedEvent(
                                t.id, assigneeID, previousAssigneeID))],
                 NoError)

\* ChangeStatus that reads the old status after it has written the new one
Task_ChangeStatus_LateOldStatus(t, newStatus) ==
    IF ~TaskStatus_IsValid(newStatus) THEN Ret(t, "invalid status")
    ELSE IF ~TaskStatus_CanTransitionTo(t.status, newStatus)
    THEN Ret(t, "cannot transition")
    ELSE LET t0 == [t EXCEPT !.status = newStatus]
             oldStatus == t0.status
             t1 == [t0 EXCEPT !.domainEvents = Append(@, NewTaskStatusChangedEvent(
                                  t.id, oldStatus, newStatus))]
         IN  IF newStatus = TaskStatusCompleted
             THEN IF t1.assignee = Nil
                  THEN Ret(t1, Panic)
                  ELSE Ret([t1 EXCEPT !.domainEvents = Append(@, NewTaskCompletedEvent(
                                           t.id, t1.assignee.assigneeID))],
                           NoError)
             ELSE Ret(t1, NoError)

Task_ChangeStatus(t, newStatus) ==
    IF ~TaskStatus_IsValid(newStatus) THEN Ret(t, "invalid status")
    ELSE IF ~TaskStatus_CanTransitionTo(t.status, newStatus)
    THEN Ret(t, "cannot transition")
    ELSE LET oldStatus == t.status
             t1 == [t EXCEPT !.status = newStatus,
                             !.domainEvents = Append(@, NewTaskStatusChangedEvent(
                                  t.id, oldStatus, newStatus))]
         IN  IF newStatus = TaskStatusCompleted
             THEN IF t1.assignee = Nil
                  THEN Ret(t1, Panic)
                  ELSE Ret([t1 EXCEPT !.domainEvents = Append(@, NewTaskCompletedEvent(
                                           t.id, t1.assignee.assigneeID))],
                           NoError)
             ELSE Ret(t1, NoError)


\* SetDeadline that records no event
Task_SetDeadline_Silent(t, deadline) ==
    Ret([t EXCEPT !.deadline = deadline], NoError)

Task_SetDeadline(t, deadline) ==
    Ret([t EXCEPT !.deadline = deadline,
                  !.domainEvents = Append(@, NewTaskDeadlineSetEvent(t.id, deadline.dueDate))],
        NoError)

Task_AddComment(t, comment) ==
    IF comment = Nil THEN Ret(t, "comment cannot be nil")
    ELSE Ret([t EXCEPT !.comments = Append(@, comment)], NoError)

\* UpdateTitle without the test for an empty title
Task_UpdateTitle_AcceptsEmpty(t, newTitle) ==
    Ret([t EXCEPT !.title = newTitle], NoError)

Task_UpdateTitle(t, newTitle) ==
    IF newTitle = "" THEN Ret(t, "title cannot be empty")
    ELSE Ret([t EXCEPT !.title = newTitle], NoError)

Task_UpdateDescription(t, newDescription) ==
    Ret([t EXCEPT !.description = newDescription], NoError)

Task_UpdatePriority(t, newPriority) ==
    IF ~Priority_IsValid(newPriority) THEN Ret(t, "invalid priority")
    ELSE Ret([t EXCEPT !.priority = newPriority], NoError)

Task_CheckDeadlineStatus(t, clock) ==
    IF t.deadline = Nil THEN t
    ELSE IF /\ Deadline_IsOverdue(t.deadline, clock)
            /\ t.status # TaskStatusCompleted
            /\ t.status # TaskStatusCancelled
    THEN LET daysOverdue == 0 - Deadline_DaysUntilDue(t.deadline, clock)
         IN  [t EXCEPT !.domainEvents = Append(@, NewTaskOverdueEvent(t.id, daysOverdue))]
    ELSE t

Task_UpdateStatus(t, newStatus) == [t EXCEPT !.status = newStatus]

(***************************************************************************)
(* Collaborators of the domain services.                                   *)
(***************************************************************************)
\* the users held by the user repository
StoredUsers == {"u1"}

\* UserRepository.GetByID, reduced to the error it returns
UserRepository_GetByID(id) == IF id \in StoredUsers THEN NoError ELSE "user not found"

\* time.Now().AddDate(5, 0, 0), in days
FiveYears == 1826

(***************************************************************************)
(* TaskAssignmentService.                                                  *)
(***************************************************************************)
\* AssignTask that assigns before it has verified the assigner
AssignTask_AssignsFirst(t, assigneeID, assignedBy) ==
    IF UserRepository_GetByID(assigneeID) # NoError THEN Ret(t, "assignee not found")
    ELSE LET r == Task_Assign(t, assigneeID, assignedBy)
         IN  IF UserRepository_GetByID(assignedBy) # NoError
             THEN Ret(r.task, "assigner not found")
             ELSE IF r.err # NoError THEN Ret(r.task, "failed to assign task")
             ELSE Ret(r.task, NoError)

\* AssignTask that does not look the assigner up
AssignTask_NoAssignerLookup(t, assigneeID, assignedBy) ==
    IF UserRepository_GetByID(assigneeID) # NoError THEN Ret(t, "assignee not found")
    ELSE LET r == Task_Assign(t, assigneeID, assignedBy)
         IN  IF r.err # NoError THEN Ret(r.task, "failed to assign task") ELSE Ret(r.task, NoError)

TaskAssignmentService_AssignTask(t, assigneeID, assignedBy) ==
    IF UserRepository_GetByID(assigneeID) # NoError THEN Ret(t, "assignee not found")
    ELSE IF UserRepository_GetByID(assignedBy) # NoError THEN Ret(t, "assigner not found")
    ELSE LET r == Task_Assign(t, assigneeID, assignedBy)
         IN  IF r.err # NoError THEN Ret(r.task, "failed to assign task") ELSE Ret(r.task, NoError)

TaskAssignmentService_ReassignTask(t, newAssigneeID, reassignedBy) ==
    IF t.assignee = Nil THEN Ret(t, "task is not assigned")
    ELSE IF UserRepository_GetByID(newAssigneeID) # NoError THEN Ret(t, "new assignee not found")
    ELSE IF UserRepository_GetByID(reassignedBy) # NoError THEN Ret(t, "reassigner not found")
    ELSE LET r == Task_Assign(t, newAssigneeID, reassignedBy)
         IN  IF r.err # NoError THEN Ret(r.task, "failed to reassign task") ELSE Ret(r.task, NoError)


\* UnassignTask that removes the assignment
UnassignTask_Clears(t) ==
    IF t.assignee = Nil THEN Ret(t, "task is not assigned")
    ELSE Ret([t EXCEPT !.assignee = Nil], NoError)

TaskAssignmentService_UnassignTask(t) ==
    IF t.assignee = Nil THEN Ret(t, "task is not assigned")
    ELSE LET tempUserID == "unassigned"
             r == Task_Assign(t, tempUserID, tempUserID)
         IN  IF r.err # NoError THEN Ret(r.task, "failed to unassign task") ELSE Ret(r.task, NoError)

(***************************************************************************)
(* DeadlineEnforcementService.                                             *)
(***************************************************************************)
\* ValidateDeadline without the five-year ceiling
ValidateDeadline_NoCeiling(deadline, clock) ==
    IF Deadline_IsOverdue(deadline, clock) THEN "deadline cannot be in the past"
    ELSE NoError

DeadlineEnforcementService_ValidateDeadline(deadline, clock) ==
    IF Deadline_IsOverdue(deadline, clock) THEN "deadline cannot be in the past"
    ELSE IF deadline.dueDate > clock + FiveYears THEN "deadline too far in the future"
    ELSE NoError

\* SetDeadline that does not look at the status of the task
SetDeadline_AnyStatus(t, deadline, clock) ==
    IF DeadlineEnforcementService_ValidateDeadline(deadline, clock) # NoError
    THEN Ret(t, "invalid deadline")
    ELSE LET r == Task_SetDeadline(t, deadline)
         IN  IF r.err # NoError THEN Ret(r.task, "failed to set deadline") ELSE Ret(r.task, NoError)

DeadlineEnforcementService_SetDeadline(t, deadline, clock) ==
    IF DeadlineEnforcementService_ValidateDeadline(deadline, clock) # NoError
    THEN Ret(t, "invalid deadline")
    ELSE IF t.status = TaskStatusCompleted \/ t.status = TaskStatusCancelled
    THEN Ret(t, "cannot set deadline for completed or cancelled tasks")
    ELSE LET r == Task_SetDeadline(t, deadline)
         IN  IF r.err # NoError THEN Ret(r.task, "failed to set deadline") ELSE Ret(r.task, NoError)

DeadlineEnforcementService_ExtendDeadline(t, newDeadline, clock) ==
    IF t.deadline # Nil /\ newDeadline.dueDate < t.deadline.dueDate
    THEN Ret(t, "new deadline must be after current deadline")
    ELSE DeadlineEnforcementService_SetDeadline(t, newDeadline, clock)

\* CheckOverdueStatus that hands the error of the notification to its caller
CheckOverdueStatus_Propagates(t, clock, notifyErr) ==
    IF t.deadline = Nil THEN [task |-> t, err |-> NoError, notified |-> "no"]
    ELSE IF /\ Deadline_IsOverdue(t.deadline, clock)
            /\ t.status # TaskStatusCompleted
            /\ t.status # TaskStatusCancelled
    THEN LET t1 == Task_CheckDeadlineStatus(t, clock)
         IN  IF t1.assignee # Nil
             THEN [task |-> t1, err |-> notifyErr,
                   notified |-> IF notifyErr # NoError THEN "failed" ELSE "sent"]
             ELSE [task |-> t1, err |-> NoError, notified |-> "no"]
    ELSE [task |-> t, err |-> NoError, notified |-> "no"]

\* notifyErr is what NotificationService.NotifyTaskOverdue returns if it is called
DeadlineEnforcementService_CheckOverdueStatus(t, clock, notifyErr) ==
    IF t.deadline = Nil THEN [task |-> t, err |-> NoError, notified |-> "no"]
    ELSE IF /\ Deadline_IsOverdue(t.deadline, clock)
            /\ t.status # TaskStatusCompleted
            /\ t.status # TaskStatusCancelled
    THEN LET t1 == Task_CheckDeadlineStatus(t, clock)
         IN  IF t1.assignee # Nil
             THEN [task |-> t1, err |-> NoError,
                   notified |-> IF notifyErr # NoError THEN "failed" ELSE "sent"]
             ELSE [task |-> t1, err |-> NoError, notified |-> "no"]
    ELSE [task |-> t, err |-> NoError, notified |-> "no"]

(***************************************************************************)
(* StatusTransitionService.                                                *)
(***************************************************************************)
StatusTransitionService_CanTransition(t, newStatus) ==
    TaskStatus_CanTransitionTo(t.status, newStatus)


\* TransitionTask without the must-be-assigned prerequisite
TransitionTask_NoAssigneeCheck(t, newStatus) ==
    IF ~StatusTransitionService_CanTransition(t, newStatus)
    THEN Ret(t, "invalid status transition")
    ELSE IF newStatus = TaskStatusCompleted /\ t.deadline = Nil
    THEN Ret(t, "task must have a deadline before completion")
    ELSE LET r == Task_ChangeStatus(t, newStatus)
         IN  IF r.err = Panic THEN r
             ELSE IF r.err # NoError THEN Ret(r.task, "failed to change task status")
             ELSE Ret(r.task, NoError)

\* TransitionTask that asks for an assignment before any change of status
TransitionTask_AlwaysNeedsAssignee(t, newStatus) ==
    IF ~StatusTransitionService_CanTransition(t, newStatus)
    THEN Ret(t, "invalid status transition")
    ELSE IF t.assignee = Nil
    THEN Ret(t, "task must be assigned before moving to in-progress")
    ELSE IF newStatus = TaskStatusCompleted /\ t.deadline = Nil
    THEN Ret(t, "task must have a deadline before completion")
    ELSE LET r == Task_ChangeStatus(t, newStatus)
         IN  IF r.err = Panic THEN r
             ELSE IF r.err # NoError THEN Ret(r.task, "failed to change task status")
             ELSE Ret(r.task, NoError)

StatusTransitionService_TransitionTask(t, newStatus) ==
    IF ~StatusTransitionService_CanTransition(t, newStatus)
    THEN Ret(t, "invalid status transition")
    ELSE IF newStatus = TaskStatusInProgress /\ t.assignee = Nil
    THEN Ret(t, "task must be assigned before moving to in-progress")
    ELSE IF newStatus = TaskStatusCompleted /\ t.deadline = Nil
    THEN Ret(t, "task must have a deadline before completion")
    ELSE LET r == Task_ChangeStatus(t, newStatus)
         IN  IF r.err = Panic THEN r
             ELSE IF r.err # NoError THEN Ret(r.task, "failed to change task status")
             ELSE Ret(r.task, NoError)

(***************************************************************************)
(* The application layer.  A Task object lives in memory under its id;     *)
(* the task repository maps a key to the object it was handed, and a       *)
(* handler that loaded a task works on that very object.                   *)
(***************************************************************************)
TaskIDs == {"t1", "t2"}
Procs == {1, 2}
NoRef == "none"
StoredProjects == {"proj-1"}

\* the event kinds a subscriber can be registered for
SubKinds == {"TaskAssigned"}

\* value.NewTaskID, NewProjectID, NewUserID, reduced to the error they return
NewTaskID(id) == IF id = "" THEN "task id cannot be empty" ELSE NoError

NewProjectID(id) == IF id = "" THEN "project id cannot be empty" ELSE NoError

NewUserID(id) == IF id = "" THEN "user id cannot be empty" ELSE NoError

\* value.NewTaskStatus
NewTaskStatus(status) ==
    IF status \in {TaskStatusBacklog, TaskStatusToDo, TaskStatusInProgress,
                   TaskStatusInReview, TaskStatusCompleted, TaskStatusCancelled}
    THEN NoError
    ELSE "invalid task status"

\* value.NewPriority
NewPriority(priority) ==
    IF priority \in {PriorityLow, PriorityMedium, PriorityHigh, PriorityCritical}
    THEN NoError
    ELSE "invalid priority"

\* the RFC 3339 texts of the model and the day each of them names
RFC3339 ==
    ("1970-01-01T00:00:00Z" :> 0) @@ ("1975-01-02T00:00:00Z" :> FiveYears + 1)

\* time.Parse(time.RFC3339, s)
time_Parse(s) ==
    IF s \in DOMAIN RFC3339
    THEN [day |-> RFC3339[s], err |-> NoError]
    ELSE [day |-> 0, err |-> "cannot parse"]

\* NewDeadline that also refuses the present moment
NewDeadline_Strict(dueDate, clock) ==
    IF dueDate <= clock
    THEN [deadline |-> Nil, err |-> "deadline cannot be in the past"]
    ELSE [deadline |-> [dueDate |-> dueDate], err |-> NoError]

\* value.NewDeadline: dueDate.Before(time.Now()) is refused
NewDeadline(dueDate, clock) ==
    IF dueDate < clock
    THEN [deadline |-> Nil, err |-> "deadline cannot be in the past"]
    ELSE [deadline |-> [dueDate |-> dueDate], err |-> NoError]

\* the statements of Task.ChangeStatus that follow its two checks
Task_ChangeStatus_Write(t, newStatus) ==
    LET oldStatus == t.status
        t1 == [t EXCEPT !.status = newStatus,
                        !.domainEvents = Append(@, NewTaskStatusChangedEvent(
                             t.id, oldStatus, newStatus))]
    IN  IF newStatus = TaskStatusCompleted
        THEN IF t1.assignee = Nil
             THEN Ret(t1, Panic)
             ELSE Ret([t1 EXCEPT !.domainEvents = Append(@, NewTaskCompletedEvent(
                                      t.id, t1.assignee.assigneeID))],
                      NoError)
        ELSE Ret(t1, NoError)

\* TransitionTask up to the last check of Task.ChangeStatus: what it returns, and
\* leaves of the task, when a check fails; nil when all of them pass
TransitionTask_Checks(t, newStatus) ==
    LET r == StatusTransitionService_TransitionTask(t, newStatus)
    IN  IF r.err # NoError /\ r.err # Panic THEN r ELSE Ret(t, NoError)

\* the subscribers map of a new SimpleEventPublisher: no key
NoSubscribers == [kind \in {} |-> << >>]

\* SimpleEventPublisher.Subscribe: the map afterwards.  The map has a key for
\* every event type that has handlers, and holds them in the order they came
SimpleEventPublisher_Subscribe(subs, eventType, handler) ==
    [kind \in DOMAIN subs \cup {eventType} |->
        IF kind \notin DOMAIN subs THEN <<handler>>
        ELSE IF kind = eventType THEN Append(subs[kind], handler)
        ELSE subs[kind]]

\* Unsubscribe that takes away the handler subscribed last
Unsubscribe_Last(subs, eventType) ==
    IF eventType \notin DOMAIN subs \/ Len(subs[eventType]) = 1
    THEN [kind \in DOMAIN subs \ {eventType} |-> subs[kind]]
    ELSE [subs EXCEPT ![eventType] = SubSeq(@, 1, Len(@) - 1)]

\* SimpleEventPublisher.Unsubscribe: delete(p.subscribers, eventType)
SimpleEventPublisher_Unsubscribe(subs, eventType) ==
    [kind \in DOMAIN subs \ {eventType} |-> subs[kind]]

\* the handlers SimpleEventPublisher.Publish calls for the event, in order
Publish_Handlers(evt, subs) ==
    IF evt.eventType \notin DOMAIN subs THEN << >> ELSE subs[evt.eventType]

\* SimpleEventPublisher.Publish: handlerErr is what a subscribed handler returns
SimpleEventPublisher_Publish(evt, subs, handlerErr) ==
    IF evt.eventType \notin DOMAIN subs THEN NoError
    ELSE IF handlerErr # NoError THEN "failed to publish event"
    ELSE NoError

\* a handler that is not running: the command it handled last and what it
\* returned, with the number of repository GetByID calls and of successful
\* Save/Update calls it made
NoCmd == [none |-> TRUE]

Returned(op, err, gets, saves) ==
    [pc |-> "idle", op |-> op, cmd |-> NoCmd, ref |-> NoRef, pre |-> Nil,
     snapshot |-> << >>, sent |-> << >>, gets |-> gets, saves |-> saves, err |-> err]

\* a handler at work on the object ref, which was pre when the handler loaded it
Running(pc, op, cmd, ref, pre, gets, saves) ==
    [pc |-> pc, op |-> op, cmd |-> cmd, ref |-> ref, pre |-> pre,
     snapshot |-> << >>, sent |-> << >>, gets |-> gets, saves |-> saves, err |-> NoError]

\* CreateTaskCommandHandler.Handle up to the deadline (lines 64-138): the task
\* it has built, or the error it returns, and the GetByID calls made
Prepared(t, err, gets) == [task |-> t, err |-> err, gets |-> gets]

CreateTask_SetDeadline(t, cmd, clock, gets) ==
    IF cmd.Deadline = "" THEN Prepared(t, NoError, gets)
    ELSE LET parsed == time_Parse(cmd.Deadline)
         IN  IF parsed.err # NoError THEN Prepared(Nil, "invalid deadline format", gets)
             ELSE LET d == NewDeadline(parsed.day, clock)
                  IN  IF d.err # NoError THEN Prepared(Nil, "invalid deadline", gets)
                      ELSE LET r == DeadlineEnforcementService_SetDeadline(t, d.deadline, clock)
                           IN  IF r.err # NoError
                               THEN Prepared(Nil, "failed to set deadline", gets)
                               ELSE Prepared(r.task, NoError, gets)

\* Handle without the assignment of lines 109-120
CreateTask_Assign_Skips(t, cmd, clock, gets) == CreateTask_SetDeadline(t, cmd, clock, gets)

CreateTask_Assign(t, cmd, clock, gets) ==
    IF cmd.AssigneeID = "" THEN CreateTask_SetDeadline(t, cmd, clock, gets)
    ELSE IF NewUserID(cmd.AssigneeID) # NoError
    THEN Prepared(Nil, "invalid assignee id", gets)
    ELSE LET r == TaskAssignmentService_AssignTask(t, cmd.AssigneeID, cmd.CreatedBy)
             looked == IF UserRepository_GetByID(cmd.AssigneeID) # NoError THEN 1 ELSE 2
         IN  IF r.err # NoError
             THEN Prepared(Nil, "failed to assign task", gets + looked)
             ELSE CreateTask_SetDeadline(r.task, cmd, clock, gets + looked)

CreateTask_Prepare(cmd, id, clock, storedProjects) ==
    IF NewProjectID(cmd.ProjectID) # NoError THEN Prepared(Nil, "invalid project id", 0)
    ELSE IF cmd.ProjectID \notin storedProjects THEN Prepared(Nil, "project not found", 1)
    ELSE IF NewPriority(cmd.Priority) # NoError THEN Prepared(Nil, "invalid priority", 1)
    ELSE IF NewUserID(cmd.CreatedBy) # NoError THEN Prepared(Nil, "invalid user id", 1)
    ELSE IF UserRepository_GetByID(cmd.CreatedBy) # NoError
    THEN Prepared(Nil, "user not found", 2)
    ELSE LET created == NewTask(id, cmd.ProjectID, cmd.Title, cmd.Description,
                                cmd.Priority, cmd.CreatedBy)
         IN  IF created.err # NoError THEN Prepared(Nil, "failed to create task", 2)
             ELSE CreateTask_Assign(created.task, cmd, clock, 2)

(***************************************************************************)
(* The User and Project aggregates and PublishAll of the publisher.        *)
(***************************************************************************)
\* User.Deactivate on the user id: the active users afterwards and the error
User_Deactivate(act, id) ==
    IF id \notin act THEN [active |-> act, err |-> "user is already inactive"]
    ELSE [active |-> act \ {id}, err |-> NoError]

\* User.Activate
User_Activate(act, id) ==
    IF id \in act THEN [active |-> act, err |-> "user is already active"]
    ELSE [active |-> act \cup {id}, err |-> NoError]

\* AddTask that does not look for the id in the collection
AddTask_NoDuplicateCheck(p, taskID) ==
    IF taskID = "" THEN [project |-> p, err |-> "task id cannot be empty"]
    ELSE [project |-> [p EXCEPT !.taskIDs = Append(@, taskID)], err |-> NoError]

\* Project.AddTask
Project_AddTask(p, taskID) ==
    IF taskID = "" THEN [project |-> p, err |-> "task id cannot be empty"]
    ELSE IF \E i \in 1..Len(p.taskIDs) : p.taskIDs[i] = taskID
    THEN [project |-> p, err |-> "task already exists in project"]
    ELSE [project |-> [p EXCEPT !.taskIDs = Append(@, taskID)], err |-> NoError]

\* Project.RemoveTask: the first entry equal to taskID is cut out
Project_RemoveTask(p, taskID) ==
    LET found == {i \in 1..Len(p.taskIDs) : p.taskIDs[i] = taskID}
    IN  IF found = {} THEN [project |-> p, err |-> "task not found in project"]
        ELSE LET i == CHOOSE k \in found : \A j \in found : k <= j
             IN  [project |-> [p EXCEPT !.taskIDs = SubSeq(@, 1, i - 1)
                                                      \o SubSeq(@, i + 1, Len(@))],
                  err |-> NoError]

\* PublishAll that goes through the whole list and returns the first error
RECURSIVE PublishAll_ContinuesFrom(_, _, _, _)
PublishAll_ContinuesFrom(events, subs, handlerErrs, i) ==
    IF i > Len(events) THEN [err |-> NoError, calls |-> << >>]
    ELSE LET e == SimpleEventPublisher_Publish(events[i], subs, handlerErrs[i])
             rest == PublishAll_ContinuesFrom(events, subs, handlerErrs, i + 1)
         IN  [err |-> IF e # NoError THEN e ELSE rest.err,
              calls |-> <<events[i]>> \o rest.calls]

PublishAll_Continues(events, subs, handlerErrs) ==
    PublishAll_ContinuesFrom(events, subs, handlerErrs, 1)

\* the loop of SimpleEventPublisher.PublishAll from the i-th event on: the error
\* returned and the events Publish was called with; handlerErrs[i] is what a
\* subscribed handler returns for the i-th event
RECURSIVE PublishAll_From(_, _, _, _)
PublishAll_From(events, subs, handlerErrs, i) ==
    IF i > Len(events) THEN [err |-> NoError, calls |-> << >>]
    ELSE LET e == SimpleEventPublisher_Publish(events[i], subs, handlerErrs[i])
         IN  IF e # NoError THEN [err |-> e, calls |-> <<events[i]>>]
             ELSE LET rest == PublishAll_From(events, subs, handlerErrs, i + 1)
                  IN  [err |-> rest.err, calls |-> <<events[i]>> \o rest.calls]

\* SimpleEventPublisher.PublishAll
SimpleEventPublisher_PublishAll(events, subs, handlerErrs) ==
    PublishAll_From(events, subs, handlerErrs, 1)

(***************************************************************************)
(* Inputs of the calls.                                                    *)
(***************************************************************************)
UserIDs == {"u1", "ghost"}
Statuses == {TaskStatusBacklog, TaskStatusToDo, TaskStatusInProgress, TaskStatusInReview,
             TaskStatusCompleted, TaskStatusCancelled, "INVALID"}
Titles == {"", "T1"}
Descriptions == {"D1"}
Priorities == {PriorityLow, "URGENT"}
Deadlines == {[dueDate |-> d] : d \in {0, FiveYears + 1}}
Comments == {Nil, [authorID |-> "u1", content |-> "c"]}

(***************************************************************************)
(* The state machine: one call per step.  last is the call just made and   *)
(* what it returned.                                                       *)
(***************************************************************************)
\* no handler is running and none has run
InitHandlers ==
    /\ heap = [id \in TaskIDs |-> Nil]
    /\ taskRepo = [id \in TaskIDs |-> NoRef]
    /\ project = [taskIDs |-> << >>]
    /\ projectRepo = StoredProjects
    /\ subscribers = NoSubscribers
    /\ delivered = [id \in TaskIDs |-> 0]
    /\ procs = [p \in Procs |-> Returned("none", NoError, 0, 0)]
    /\ active = StoredUsers

Init ==
    /\ task = Nil
    /\ last = [op |-> "init", err |-> NoError, notified |-> "no"]
    /\ now = 0
    /\ InitHandlers

\* the event queue can take n more events
Room(n) == Len(task.domainEvents) + n <= MaxEvents

Call(op, r) ==
    /\ task' = r.task
    /\ last' = [op |-> op, err |-> r.err, notified |-> "no"]
    /\ UNCHANGED now
    /\ UNCHANGED hvars

Call_NewTask ==
    /\ task = Nil
    /\ \E title \in Titles, priority \in Priorities :
          Call("NewTask", NewTask("task-1", "proj-1", title, "D1", priority, "u1"))

Call_Assign ==
    /\ task # Nil /\ Room(1)
    /\ \E assigneeID \in {"", "u1"} :
          Call("Task.Assign", Task_Assign(task, assigneeID, "u1"))

Call_ChangeStatus ==
    /\ task # Nil /\ Room(2)
    /\ \E newStatus \in Statuses :
          Call("Task.ChangeStatus", Task_ChangeStatus(task, newStatus))

Call_SetDeadline ==
    /\ task # Nil /\ Room(1)
    /\ \E deadline \in Deadlines :
          Call("Task.SetDeadline", Task_SetDeadline(task, deadline))

Call_AddComment ==
    /\ task # Nil /\ Len(task.comments) < MaxComments
    /\ \E comment \in Comments :
          Call("Task.AddComment", Task_AddComment(task, comment))

Call_UpdateTitle ==
    /\ task # Nil
    /\ \E newTitle \in Titles :
          Call("Task.UpdateTitle", Task_UpdateTitle(task, newTitle))

Call_UpdateDescription ==
    /\ task # Nil
    /\ \E newDescription \in Descriptions :
          Call("Task.UpdateDescription", Task_UpdateDescription(task, newDescription))

Call_UpdatePriority ==
    /\ task # Nil
    /\ \E newPriority \in Priorities :
          Call("Task.UpdatePriority", Task_UpdatePriority(task, newPriority))

Call_CheckDeadlineStatus ==
    /\ task # Nil /\ Room(1)
    /\ Call("Task.CheckDeadlineStatus", Ret(Task_CheckDeadlineStatus(task, now), NoError))

Call_UpdateStatus ==
    /\ task # Nil
    /\ \E newStatus \in Statuses \ {"INVALID"} :
          Call("Task.UpdateStatus", Ret(Task_UpdateStatus(task, newStatus), NoError))

Call_ClearDomainEvents ==
    /\ task # Nil
    /\ Call("Task.ClearDomainEvents", Ret(Task_ClearDomainEvents(task), NoError))

Call_AssignTask ==
    /\ task # Nil /\ Room(1)
    /\ \E assigneeID \in UserIDs, assignedBy \in UserIDs :
          Call("TaskAssignmentService.AssignTask",
               TaskAssignmentService_AssignTask(task, assigneeID, assignedBy))

Call_ReassignTask ==
    /\ task # Nil /\ Room(1)
    /\ \E newAssigneeID \in UserIDs, reassignedBy \in UserIDs :
          Call("TaskAssignmentService.ReassignTask",
               TaskAssignmentService_ReassignTask(task, newAssigneeID, reassignedBy))

Call_UnassignTask ==
    /\ task # Nil /\ Room(1)
    /\ Call("TaskAssignmentService.UnassignTask", TaskAssignmentService_UnassignTask(task))

Call_TransitionTask ==
    /\ task # Nil /\ Room(2)
    /\ \E newStatus \in Statuses :
          Call("StatusTransitionService.TransitionTask",
               StatusTransitionService_TransitionTask(task, newStatus))

Call_ServiceSetDeadline ==
    /\ task # Nil /\ Room(1)
    /\ \E deadline \in Deadlines :
          Call("DeadlineEnforcementService.SetDeadline",
               DeadlineEnforcementService_SetDeadline(task, deadline, now))

Call_ExtendDeadline ==
    /\ task # Nil /\ Room(1)
    /\ \E newDeadline \in Deadlines :
          Call("DeadlineEnforcementService.ExtendDeadline",
               DeadlineEnforcementService_ExtendDeadline(task, newDeadline, now))

Call_CheckOverdueStatus ==
    /\ task # Nil /\ Room(1)
    /\ \E notifyErr \in {NoError, "notification failed"} :
          LET r == DeadlineEnforcementService_CheckOverdueStatus(task, now, notifyErr)
          IN  /\ task' = r.task
              /\ last' = [op |-> "DeadlineEnforcementService.CheckOverdueStatus",
                          err |-> r.err, notified |-> r.notified]
              /\ UNCHANGED now
              /\ UNCHANGED hvars

\* a day passes
Tick ==
    /\ now < MaxTime
    /\ now' = now + 1
    /\ last' = [op |-> "Tick", err |-> NoError, notified |-> "no"]
    /\ UNCHANGED task
    /\ UNCHANGED hvars

ServiceCalls ==
    \/ Call_AssignTask
    \/ Call_ReassignTask
    \/ Call_UnassignTask
    \/ Call_TransitionTask
    \/ Call_ServiceSetDeadline
    \/ Call_ExtendDeadline
    \/ Call_CheckOverdueStatus

\* the validating methods of the aggregate
AggregateCalls ==
    \/ Call_Assign
    \/ Call_ChangeStatus
    \/ Call_SetDeadline
    \/ Call_AddComment
    \/ Call_UpdateTitle
    \/ Call_UpdateDescription
    \/ Call_UpdatePriority
    \/ Call_CheckDeadlineStatus
    \/ Call_ClearDomainEvents

\* a task used through its validating methods and through the services
Next ==
    \/ Call_NewTask
    \/ AggregateCalls
    \/ ServiceCalls
    \/ Tick

Spec == Init /\ [][Next]_vars

\* every public method of the aggregate, the unvalidated UpdateStatus included,
\* and the status transition service
NextAggregate ==
    \/ Call_NewTask
    \/ AggregateCalls
    \/ Call_UpdateStatus
    \/ Call_TransitionTask
    \/ Tick

SpecAggregate == Init /\ [][NextAggregate]_vars

\* a task that is changed through the domain services only
NextService ==
    \/ Call_NewTask
    \/ ServiceCalls
    \/ Call_ClearDomainEvents
    \/ Tick

SpecService == Init /\ [][NextService]_vars

(***************************************************************************)
(* The command handlers.  A handler is followed statement by statement     *)
(* wherever it touches what another caller can touch: the repositories,    *)
(* the publisher and the loaded Task object.                               *)
(***************************************************************************)
CreateTaskCommands ==
    [ProjectID : {"", "proj-1"}, Title : Titles, Description : Descriptions,
     Priority : Priorities, AssigneeID : {"", "u1", "ghost"},
     Deadline : {"", "not-a-date", "1970-01-01T00:00:00Z", "1975-01-02T00:00:00Z"},
     CreatedBy : {"", "u1"}]

AssignTaskCommands ==
    [TaskID : {""} \cup TaskIDs, AssigneeID : {"", "u1", "ghost"},
     AssignedBy : {"", "u1", "ghost"}]

UpdateTaskStatusCommands ==
    [TaskID : {""} \cup TaskIDs, NewStatus : Statuses]

\* the well-formed commands that name the task id
AssignTaskCommandsOn(id) ==
    {cmd \in AssignTaskCommands :
        cmd.TaskID = id /\ cmd.AssigneeID = "u1" /\ cmd.AssignedBy = "u1"}

UpdateTaskStatusCommandsOn(id) ==
    {cmd \in UpdateTaskStatusCommands : cmd.TaskID = id /\ cmd.NewStatus # "INVALID"}

\* value.GenerateTaskID: an id no task has had
GenerateTaskID == IF heap["t1"] = Nil THEN "t1" ELSE "t2"

\* InMemoryTaskRepository.Update that refuses every write
Update_Refusing(repo, key, ref) == [repo |-> repo, err |-> "task was changed"]

\* InMemoryTaskRepository.Update that reports success for a task it does not hold
Update_Silent(repo, key, ref) == [repo |-> repo, err |-> NoError]

\* InMemoryTaskRepository.Update: the map afterwards and the error returned
InMemoryTaskRepository_Update(repo, key, ref) ==
    IF repo[key] = NoRef
    THEN [repo |-> repo, err |-> "task not found"]
    ELSE [repo |-> [repo EXCEPT ![key] = ref], err |-> NoError]

\* Save that reports success and stores nothing
Save_Dropping(repo, key, ref) == [repo |-> repo, err |-> NoError]

\* InMemoryTaskRepository.Save
InMemoryTaskRepository_Save(repo, key, ref) ==
    [repo |-> [repo EXCEPT ![key] = ref], err |-> NoError]

\* GetByID that hands out one and the same task for every id
GetByID_Shared(id) == [ref |-> "t1", err |-> NoError]

\* InMemoryTaskRepository.GetByID
InMemoryTaskRepository_GetByID(id) ==
    IF taskRepo[id] = NoRef
    THEN [ref |-> NoRef, err |-> "task not found"]
    ELSE [ref |-> taskRepo[id], err |-> NoError]

\* the handler p returns
Return(p, op, err, gets, saves) ==
    procs' = [procs EXCEPT ![p] = Returned(op, err, gets, saves)]

\* CreateTaskCommandHandler.Handle, lines 64-138
\* with the id GenerateTaskID hands out
CreateTask_Begin(p, cmds) ==
    /\ procs[p].pc = "idle"
    /\ \E cmd \in cmds :
          LET id == GenerateTaskID
              r == CreateTask_Prepare(cmd, id, now, projectRepo)
          IN  IF r.err # NoError
              THEN /\ Return(p, "CreateTask", r.err, r.gets, 0)
                   /\ UNCHANGED heap
              ELSE /\ heap' = [heap EXCEPT ![id] = r.task]
                   /\ procs' = [procs EXCEPT ![p] =
                                   Running("created", "CreateTask", cmd, id, Nil,
                                           r.gets, 0)]
    /\ UNCHANGED <<taskRepo, project, projectRepo, subscribers, delivered>>
    /\ UNCHANGED <<task, last, now, active>>

\* the first CreateTask command
HandleCreateTask(p, cmds) ==
    /\ \A id \in TaskIDs : heap[id] = Nil
    /\ CreateTask_Begin(p, cmds)

\* CreateTaskCommandHandler.Handle, lines 140-158: project.AddTask,
\* taskRepository.Save, projectRepository.Update, task.DomainEvents()
CreateTask_Persist(p) ==
    /\ procs[p].pc = "created"
    /\ LET me == procs[p]
           id == me.ref
       IN  IF \E i \in 1..Len(project.taskIDs) : project.taskIDs[i] = id
           THEN /\ Return(p, me.op, "failed to add task to project", me.gets, 0)
                /\ UNCHANGED <<project, taskRepo>>
           ELSE /\ project' = [project EXCEPT !.taskIDs = Append(@, id)]
                /\ taskRepo' = InMemoryTaskRepository_Save(taskRepo, heap[id].id, id).repo
                /\ IF me.cmd.ProjectID \notin projectRepo
                   THEN Return(p, me.op, "failed to update project", me.gets, 1)
                   ELSE procs' = [procs EXCEPT ![p] =
                                     [me EXCEPT !.pc = "publishing", !.saves = 2,
                                                !.snapshot = Task_DomainEvents(heap[id])]]
    /\ UNCHANGED <<heap, projectRepo, subscribers, delivered>>
    /\ UNCHANGED <<task, last, now, active>>

\* AssignTaskCommandHandler.Handle, lines 45-66
\* remember: the task as it was loaded is kept for comparison
HandleAssignTask(p, cmds, remember) ==
    /\ procs[p].pc = "idle"
    /\ \E cmd \in cmds :
          IF NewTaskID(cmd.TaskID) # NoError
          THEN Return(p, "AssignTask", "invalid task id", 0, 0)
          ELSE IF NewUserID(cmd.AssigneeID) # NoError
          THEN Return(p, "AssignTask", "invalid assignee id", 0, 0)
          ELSE IF NewUserID(cmd.AssignedBy) # NoError
          THEN Return(p, "AssignTask", "invalid assigner id", 0, 0)
          ELSE LET got == InMemoryTaskRepository_GetByID(cmd.TaskID)
               IN  IF got.err # NoError
                   THEN Return(p, "AssignTask", "task not found", 1, 0)
                   ELSE /\ Len(heap[got.ref].domainEvents) + 1 <= MaxQueue
                        /\ procs' = [procs EXCEPT ![p] =
                                        Running("loaded", "AssignTask", cmd, got.ref,
                                                IF remember THEN heap[got.ref] ELSE Nil,
                                                1, 0)]
    /\ UNCHANGED <<heap, taskRepo, project, projectRepo, subscribers, delivered>>
    /\ UNCHANGED <<task, last, now, active>>

\* AssignTaskCommandHandler.Handle, lines 68-72: assignmentService.AssignTask
AssignTask_Mutate(p) ==
    /\ procs[p].pc = "loaded"
    /\ procs[p].op = "AssignTask"
    /\ LET me == procs[p]
           r == TaskAssignmentService_AssignTask(heap[me.ref], me.cmd.AssigneeID,
                                                 me.cmd.AssignedBy)
           looked == IF UserRepository_GetByID(me.cmd.AssigneeID) # NoError THEN 1 ELSE 2
       IN  /\ heap' = [heap EXCEPT ![me.ref] = r.task]
           /\ IF r.err # NoError
              THEN Return(p, me.op, "failed to assign task", me.gets + looked, 0)
              ELSE procs' = [procs EXCEPT ![p] =
                                [me EXCEPT !.pc = "mutated", !.gets = @ + looked]]
    /\ UNCHANGED <<taskRepo, project, projectRepo, subscribers, delivered>>
    /\ UNCHANGED <<task, last, now, active>>

\* UpdateTaskStatusCommandHandler.Handle, lines 102-119
HandleUpdateTaskStatus(p, cmds, remember) ==
    /\ procs[p].pc = "idle"
    /\ \E cmd \in cmds :
          IF NewTaskID(cmd.TaskID) # NoError
          THEN Return(p, "UpdateTaskStatus", "invalid task id", 0, 0)
          ELSE IF NewTaskStatus(cmd.NewStatus) # NoError
          THEN Return(p, "UpdateTaskStatus", "invalid status", 0, 0)
          ELSE LET got == InMemoryTaskRepository_GetByID(cmd.TaskID)
               IN  IF got.err # NoError
                   THEN Return(p, "UpdateTaskStatus", "task not found", 1, 0)
                   ELSE /\ Len(heap[got.ref].domainEvents) + 2 <= MaxQueue
                        /\ procs' = [procs EXCEPT ![p] =
                                        Running("loaded", "UpdateTaskStatus", cmd,
                                                got.ref,
                                                IF remember THEN heap[got.ref] ELSE Nil,
                                                1, 0)]
    /\ UNCHANGED <<heap, taskRepo, project, projectRepo, subscribers, delivered>>
    /\ UNCHANGED <<task, last, now, active>>

\* statusTransitionService.TransitionTask up to the last check of
\* Task.ChangeStatus: the reads of the task's status, assignee and deadline
UpdateTaskStatus_Check(p) ==
    /\ procs[p].pc = "loaded"
    /\ procs[p].op = "UpdateTaskStatus"
    /\ LET me == procs[p]
           r == TransitionTask_Checks(heap[me.ref], me.cmd.NewStatus)
       IN  /\ heap' = [heap EXCEPT ![me.ref] = r.task]
           /\ IF r.err # NoError
              THEN Return(p, me.op, "failed to update status", me.gets, 0)
              ELSE procs' = [procs EXCEPT ![p] = [me EXCEPT !.pc = "checked"]]
    /\ UNCHANGED <<taskRepo, project, projectRepo, subscribers, delivered>>
    /\ UNCHANGED <<task, last, now, active>>

\* the writes of Task.ChangeStatus
UpdateTaskStatus_Write(p) ==
    /\ procs[p].pc = "checked"
    /\ LET me == procs[p]
           r == Task_ChangeStatus_Write(heap[me.ref], me.cmd.NewStatus)
       IN  /\ heap' = [heap EXCEPT ![me.ref] = r.task]
           /\ IF r.err # NoError
              THEN Return(p, me.op, r.err, me.gets, 0)
              ELSE procs' = [procs EXCEPT ![p] = [me EXCEPT !.pc = "mutated"]]
    /\ UNCHANGED <<taskRepo, project, projectRepo, subscribers, delivered>>
    /\ UNCHANGED <<task, last, now, active>>

\* taskRepository.Update(task) of the AssignTask and UpdateTaskStatus handlers,
\* then task.DomainEvents()
Handler_Update(p) ==
    /\ procs[p].pc = "mutated"
    /\ LET me == procs[p]
           r == InMemoryTaskRepository_Update(taskRepo, heap[me.ref].id, me.ref)
       IN  /\ taskRepo' = r.repo
           /\ IF r.err # NoError
              THEN Return(p, me.op, "failed to save task", me.gets, 0)
              ELSE procs' = [procs EXCEPT ![p] =
                                [me EXCEPT !.pc = "publishing", !.saves = 1,
                                           !.snapshot = Task_DomainEvents(heap[me.ref])]]
    /\ UNCHANGED <<heap, project, projectRepo, subscribers, delivered>>
    /\ UNCHANGED <<task, last, now, active>>

\* the events of a queue that a handler's copy still shows in first place
SameUpTo(queue, copy, k) ==
    /\ k <= Len(queue)
    /\ SubSeq(queue, 1, k) = SubSeq(copy, 1, k)

\* one turn of the publish loop: eventPublisher.Publish(domainEvent)
Handler_Publish(p) ==
    /\ procs[p].pc = "publishing"
    /\ Len(procs[p].sent) < Len(procs[p].snapshot)
    /\ \E handlerErr \in {NoError, "subscriber failed"} :
          LET me == procs[p]
              k == Len(me.sent) + 1
              evt == me.snapshot[k]
              e == SimpleEventPublisher_Publish(evt, subscribers, handlerErr)
          IN  IF e # NoError
              THEN /\ Return(p, me.op, "failed to publish event", me.gets, me.saves)
                   /\ UNCHANGED delivered
              ELSE /\ procs' = [procs EXCEPT ![p] = [me EXCEPT !.sent = Append(@, evt)]]
                   /\ delivered' =
                         IF SameUpTo(heap[me.ref].domainEvents, me.snapshot, k)
                            /\ k > delivered[me.ref]
                         THEN [delivered EXCEPT ![me.ref] = k]
                         ELSE delivered
    /\ UNCHANGED <<heap, taskRepo, project, projectRepo, subscribers>>
    /\ UNCHANGED <<task, last, now, active>>

\* after the loop: task.ClearDomainEvents() and the return of the result
Handler_Clear(p) ==
    /\ procs[p].pc = "publishing"
    /\ Len(procs[p].sent) = Len(procs[p].snapshot)
    /\ LET me == procs[p]
       IN  /\ heap' = [heap EXCEPT ![me.ref] = Task_ClearDomainEvents(@)]
           /\ delivered' = [delivered EXCEPT ![me.ref] = 0]
           /\ Return(p, me.op, NoError, me.gets, me.saves)
    /\ UNCHANGED <<taskRepo, project, projectRepo, subscribers>>
    /\ UNCHANGED <<task, last, now, active>>

\* SimpleEventPublisher.Subscribe(kind, handler)
Subscribe ==
    /\ \E kind \in SubKinds \ DOMAIN subscribers :
          subscribers' = SimpleEventPublisher_Subscribe(subscribers, kind, "h1")
    /\ UNCHANGED <<heap, taskRepo, project, projectRepo, delivered, procs>>
    /\ UNCHANGED <<task, last, now, active>>

\* InMemoryTaskRepository.Delete(id)
InMemoryTaskRepository_Delete ==
    /\ \E id \in TaskIDs :
          /\ taskRepo[id] # NoRef
          /\ taskRepo' = [taskRepo EXCEPT ![id] = NoRef]
    /\ UNCHANGED <<heap, project, projectRepo, subscribers, delivered, procs>>
    /\ UNCHANGED <<task, last, now, active>>

\* InMemoryProjectRepository.Delete(id)
InMemoryProjectRepository_Delete ==
    /\ \E id \in projectRepo : projectRepo' = projectRepo \ {id}
    /\ UNCHANGED <<heap, taskRepo, project, subscribers, delivered, procs>>
    /\ UNCHANGED <<task, last, now, active>>

\* one caller: a task is created and commands are handled on it one after the
\* other, while subscriptions are made and stored aggregates are deleted
NextHandlers ==
    \/ HandleCreateTask(1, CreateTaskCommands)
    \/ CreateTask_Persist(1)
    \/ HandleAssignTask(1, AssignTaskCommands, TRUE)
    \/ AssignTask_Mutate(1)
    \/ HandleUpdateTaskStatus(1, UpdateTaskStatusCommands, TRUE)
    \/ UpdateTaskStatus_Check(1)
    \/ UpdateTaskStatus_Write(1)
    \/ Handler_Update(1)
    \/ Handler_Publish(1)
    \/ Handler_Clear(1)
    \/ Subscribe
    \/ InMemoryTaskRepository_Delete
    \/ InMemoryProjectRepository_Delete

SpecHandlers == Init /\ [][NextHandlers]_vars

\* the task a successful CreateTask command leaves in the repository
CreatedTask(id, assigneeID) ==
    Task_ClearDomainEvents(
        CreateTask_Prepare([ProjectID |-> "proj-1", Title |-> "T1", Description |-> "D1",
                            Priority |-> PriorityLow, AssigneeID |-> assigneeID,
                            Deadline |-> "1970-01-01T00:00:00Z", CreatedBy |-> "u1"],
                           id, 0, StoredProjects).task)

\* two tasks have been created, with an assignee from assignees1 and from
\* assignees2 ("" for none), and no subscriber is registered
InitStored(assignees1, assignees2) ==
    /\ task = Nil
    /\ last = [op |-> "init", err |-> NoError, notified |-> "no"]
    /\ now = 0
    /\ \E a1 \in assignees1, a2 \in assignees2 :
          heap = [id \in TaskIDs |-> CreatedTask(id, IF id = "t1" THEN a1 ELSE a2)]
    /\ taskRepo = [id \in TaskIDs |-> id]
    /\ project = [taskIDs |-> <<"t1", "t2">>]
    /\ projectRepo = StoredProjects
    /\ subscribers = NoSubscribers
    /\ delivered = [id \in TaskIDs |-> 0]
    /\ procs = [p \in Procs |-> Returned("none", NoError, 0, 0)]
    /\ active = StoredUsers

\* the steps of the handler p once it has loaded its task
HandlerStep(p) ==
    \/ AssignTask_Mutate(p)
    \/ UpdateTaskStatus_Check(p)
    \/ UpdateTaskStatus_Write(p)
    \/ Handler_Update(p)
    \/ Handler_Publish(p)
    \/ Handler_Clear(p)

\* two callers at once on the same task: AssignTask and UpdateTaskStatus
\* commands for the task t1 in any interleaving
NextConcurrent ==
    \/ \E p \in Procs : HandleAssignTask(p, AssignTaskCommandsOn("t1"), FALSE)
    \/ \E p \in Procs : AssignTask_Mutate(p)
    \/ \E p \in Procs : HandleUpdateTaskStatus(p, UpdateTaskStatusCommandsOn("t1"), FALSE)
    \/ \E p \in Procs : UpdateTaskStatus_Check(p)
    \/ \E p \in Procs : UpdateTaskStatus_Write(p)
    \/ \E p \in Procs : Handler_Update(p)
    \/ \E p \in Procs : Handler_Publish(p)
    \/ \E p \in Procs : Handler_Clear(p)

SpecConcurrent == InitStored({"", "u1"}, {""}) /\ [][NextConcurrent]_vars

\* the task each caller works on
TaskOf(p) == IF p = 1 THEN "t1" ELSE "t2"

\* two callers at once on different tasks: caller 1 sends commands for t1 and
\* caller 2 for t2, in any interleaving
NextDisjoint ==
    \/ \E p \in Procs : HandleAssignTask(p, AssignTaskCommandsOn(TaskOf(p)), TRUE)
    \/ \E p \in Procs : AssignTask_Mutate(p)
    \/ \E p \in Procs : HandleUpdateTaskStatus(p, UpdateTaskStatusCommandsOn(TaskOf(p)), TRUE)
    \/ \E p \in Procs : UpdateTaskStatus_Check(p)
    \/ \E p \in Procs : UpdateTaskStatus_Write(p)
    \/ \E p \in Procs : Handler_Update(p)
    \/ \E p \in Procs : Handler_Publish(p)
    \/ \E p \in Procs : Handler_Clear(p)

SpecDisjoint == InitStored({"", "u1"}, {"", "u1"}) /\ [][NextDisjoint]_vars

(***************************************************************************)
(* CreateTask commands one after the other, as long as there are fresh     *)
(* task ids, while the project may be deleted from its repository.         *)
(***************************************************************************)
CreateCommands ==
    {cmd \in CreateTaskCommands :
        /\ cmd.Priority = PriorityLow
        /\ cmd.Deadline \in {"", "not-a-date", "1975-01-02T00:00:00Z"}}

HandleCreateTasks(p) ==
    /\ \E id \in TaskIDs : heap[id] = Nil
    /\ CreateTask_Begin(p, CreateCommands)

NextCreate ==
    \/ HandleCreateTasks(1)
    \/ CreateTask_Persist(1)
    \/ Handler_Publish(1)
    \/ Handler_Clear(1)
    \/ Subscribe
    \/ InMemoryProjectRepository_Delete

SpecCreate == Init /\ [][NextCreate]_vars

(***************************************************************************)
(* The Deadline value object: deadlines are constructed and asked whether  *)
(* they are overdue while the clock advances.                              *)
(***************************************************************************)
DueDates == 0..(MaxClock + 1)

\* time.Now() has advanced by a day
Clock_Advance ==
    /\ now < MaxClock
    /\ now' = now + 1
    /\ last' = [op |-> "Tick", err |-> NoError, notified |-> "no"]
    /\ UNCHANGED task
    /\ UNCHANGED hvars

\* value.NewDeadline(dueDate), called on the day now
Call_NewDeadline ==
    /\ \E dueDate \in DueDates :
          LET r == NewDeadline(dueDate, now)
          IN  last' = [op |-> "NewDeadline", err |-> r.err, notified |-> "no",
                       dueDate |-> dueDate, deadline |-> r.deadline, at |-> now]
    /\ UNCHANGED <<task, now>>
    /\ UNCHANGED hvars

\* Deadline.IsOverdue() on the deadline constructed last
Call_IsOverdue ==
    /\ last.op \in {"NewDeadline", "Deadline.IsOverdue"}
    /\ last.err = NoError
    /\ last' = [op |-> "Deadline.IsOverdue", err |-> NoError, notified |-> "no",
                dueDate |-> last.dueDate, deadline |-> last.deadline, at |-> last.at,
                overdue |-> Deadline_IsOverdue(last.deadline, now)]
    /\ UNCHANGED <<task, now>>
    /\ UNCHANGED hvars

NextDeadline ==
    \/ Call_NewDeadline
    \/ Call_IsOverdue
    \/ Clock_Advance

SpecDeadline == Init /\ [][NextDeadline]_vars

(***************************************************************************)
(* Users are deactivated and activated while a task is assigned.           *)
(***************************************************************************)
Call_Deactivate ==
    /\ \E id \in StoredUsers :
          LET r == User_Deactivate(active, id)
          IN  /\ active' = r.active
              /\ last' = [op |-> "User.Deactivate", err |-> r.err, notified |-> "no"]
    /\ UNCHANGED <<task, now>>
    /\ UNCHANGED <<heap, taskRepo, project, projectRepo, subscribers, delivered, procs>>

Call_Activate ==
    /\ \E id \in StoredUsers :
          LET r == User_Activate(active, id)
          IN  /\ active' = r.active
              /\ last' = [op |-> "User.Activate", err |-> r.err, notified |-> "no"]
    /\ UNCHANGED <<task, now>>
    /\ UNCHANGED <<heap, taskRepo, project, projectRepo, subscribers, delivered, procs>>

NextUsers ==
    \/ Call_NewTask
    \/ Call_AssignTask
    \/ Call_ReassignTask
    \/ Call_UnassignTask
    \/ Call_ClearDomainEvents
    \/ Call_Deactivate
    \/ Call_Activate

SpecUsers == Init /\ [][NextUsers]_vars

(***************************************************************************)
(* The task collection of one Project.                                     *)
(***************************************************************************)
ProjectTaskIDs == {"", "t1", "t2", "t3"}

Call_AddTask ==
    /\ \E taskID \in ProjectTaskIDs :
          LET r == Project_AddTask(project, taskID)
          IN  /\ project' = r.project
              /\ last' = [op |-> "Project.AddTask", err |-> r.err, notified |-> "no",
                          taskID |-> taskID]
    /\ UNCHANGED <<task, now>>
    /\ UNCHANGED <<heap, taskRepo, projectRepo, subscribers, delivered, procs, active>>

Call_RemoveTask ==
    /\ \E taskID \in ProjectTaskIDs :
          LET r == Project_RemoveTask(project, taskID)
          IN  /\ project' = r.project
              /\ last' = [op |-> "Project.RemoveTask", err |-> r.err, notified |-> "no",
                          taskID |-> taskID]
    /\ UNCHANGED <<task, now>>
    /\ UNCHANGED <<heap, taskRepo, projectRepo, subscribers, delivered, procs, active>>

NextProject ==
    \/ Call_AddTask
    \/ Call_RemoveTask

SpecProject == Init /\ [][NextProject]_vars

(***************************************************************************)
(* The publisher: subscriptions are made and lists of events are handed to *)
(* PublishAll.                                                             *)
(***************************************************************************)
EventKinds == {"TaskCreated", "TaskAssigned", "TaskDeadlineSet"}

EventLists ==
    UNION {[1..n -> {[eventType |-> k, aggregateID |-> "t1"] : k \in EventKinds}] :
              n \in 0..MaxList}

Call_PublishAll ==
    /\ \E events \in EventLists :
          \E handlerErrs \in [1..Len(events) -> {NoError, "subscriber failed"}] :
             LET r == SimpleEventPublisher_PublishAll(events, subscribers, handlerErrs)
             IN  last' = [op |-> "PublishAll", err |-> r.err, notified |-> "no",
                          events |-> events, handlerErrs |-> handlerErrs,
                          calls |-> r.calls]
    /\ UNCHANGED <<task, now>>
    /\ UNCHANGED hvars

NextPublisher ==
    \/ Subscribe
    \/ Call_PublishAll

SpecPublisher == Init /\ [][NextPublisher]_vars

(***************************************************************************)
(* The subscriptions of the publisher: handlers are subscribed, event      *)
(* kinds are unsubscribed and single events are published.                 *)
(***************************************************************************)
SubscribedKinds == {"TaskCreated", "TaskAssigned"}
HandlerNames == {"h1", "h2"}

Call_Subscribe ==
    /\ \E kind \in SubscribedKinds, handler \in HandlerNames :
          /\ kind \in DOMAIN subscribers => Len(subscribers[kind]) < MaxHandlers
          /\ subscribers' = SimpleEventPublisher_Subscribe(subscribers, kind, handler)
          /\ last' = [op |-> "Subscribe", err |-> NoError, notified |-> "no",
                      kind |-> kind]
    /\ UNCHANGED <<task, now>>
    /\ UNCHANGED <<heap, taskRepo, project, projectRepo, delivered, procs, active>>

\* had: the handlers the kind had when Unsubscribe was called
Call_Unsubscribe ==
    /\ \E kind \in SubscribedKinds :
          /\ subscribers' = SimpleEventPublisher_Unsubscribe(subscribers, kind)
          /\ last' = [op |-> "Unsubscribe", err |-> NoError, notified |-> "no",
                      kind |-> kind,
                      had |-> IF kind \in DOMAIN subscribers THEN subscribers[kind]
                                                              ELSE << >>]
    /\ UNCHANGED <<task, now>>
    /\ UNCHANGED <<heap, taskRepo, project, projectRepo, delivered, procs, active>>

\* invoked: the handlers Publish has called
Call_Publish ==
    /\ \E kind \in SubscribedKinds, handlerErr \in {NoError, "subscriber failed"} :
          LET evt == [eventType |-> kind, aggregateID |-> "t1"]
          IN  last' = [op |-> "Publish",
                       err |-> SimpleEventPublisher_Publish(evt, subscribers, handlerErr),
                       notified |-> "no", kind |-> kind,
                       invoked |-> Publish_Handlers(evt, subscribers)]
    /\ UNCHANGED <<task, now>>
    /\ UNCHANGED hvars

NextSubscriptions ==
    \/ Call_Subscribe
    \/ Call_Unsubscribe
    \/ Call_Publish

SpecSubscriptions == Init /\ [][NextSubscriptions]_vars

(***************************************************************************)
(* The plain fields of a task: title, description and priority are         *)
(* replaced on a task that may have an assignment and a deadline.          *)
(***************************************************************************)
NewTitles == {"", "T1", "T2"}
NewDescriptions == {"", "D2"}
NewPriorities == {PriorityLow, PriorityCritical, "URGENT", ""}

Call_UpdateTitleTo ==
    /\ task # Nil
    /\ \E newTitle \in NewTitles :
          Call("Task.UpdateTitle", Task_UpdateTitle(task, newTitle))

Call_UpdateDescriptionTo ==
    /\ task # Nil
    /\ \E newDescription \in NewDescriptions :
          Call("Task.UpdateDescription", Task_UpdateDescription(task, newDescription))

Call_UpdatePriorityTo ==
    /\ task # Nil
    /\ \E newPriority \in NewPriorities :
          Call("Task.UpdatePriority", Task_UpdatePriority(task, newPriority))

NextFields ==
    \/ Call_NewTask
    \/ Call_UpdateTitleTo
    \/ Call_UpdateDescriptionTo
    \/ Call_UpdatePriorityTo
    \/ Call_Assign
    \/ Call_SetDeadline
    \/ Call_ChangeStatus
    \/ Call_ClearDomainEvents

SpecFields == Init /\ [][NextFields]_vars

(***************************************************************************)
(* The past of a task.  Next to each call, last keeps the statuses the     *)
(* task has had since NewTask, one entry for each change, and the          *)
(* TaskStatusChanged and TaskCompleted events the calls have appended to   *)
(* the event queue, in the order they were appended; ClearDomainEvents     *)
(* empties the queue and leaves this record alone.                         *)
(***************************************************************************)
StatusEvents(events) ==
    SelectSeq(events, LAMBDA e : e.eventType \in {"TaskStatusChanged", "TaskCompleted"})

\* the events of after that have been appended to before
Appended(before, after) ==
    IF Len(after) > Len(before) THEN SubSeq(after, Len(before) + 1, Len(after)) ELSE << >>

Trace(op, r) ==
    /\ task' = r.task
    /\ last' = [op |-> op, err |-> r.err, notified |-> "no",
                history |-> IF r.task.status # task.status
                            THEN Append(last.history, r.task.status)
                            ELSE last.history,
                recorded |-> last.recorded \o StatusEvents(
                                 Appended(task.domainEvents, r.task.domainEvents))]
    /\ UNCHANGED now
    /\ UNCHANGED hvars

Trace_NewTask ==
    /\ task = Nil
    /\ last.op = "init"
    /\ LET r == NewTask("task-1", "proj-1", "T1", "D1", PriorityLow, "u1")
       IN  /\ task' = r.task
           /\ last' = [op |-> "NewTask", err |-> r.err, notified |-> "no",
                       history |-> <<r.task.status>>,
                       recorded |-> StatusEvents(r.task.domainEvents)]
    /\ UNCHANGED now
    /\ UNCHANGED hvars

Trace_ChangeStatus ==
    /\ task # Nil /\ Room(2) /\ Len(last.recorded) + 2 <= MaxRecorded
    /\ \E newStatus \in Statuses :
          Trace("Task.ChangeStatus", Task_ChangeStatus(task, newStatus))

Trace_TransitionTask ==
    /\ task # Nil /\ Room(2) /\ Len(last.recorded) + 2 <= MaxRecorded
    /\ \E newStatus \in Statuses :
          Trace("StatusTransitionService.TransitionTask",
                StatusTransitionService_TransitionTask(task, newStatus))

Trace_AssignTask ==
    /\ task # Nil /\ Room(1)
    /\ \E assigneeID \in UserIDs :
          Trace("TaskAssignmentService.AssignTask",
                TaskAssignmentService_AssignTask(task, assigneeID, "u1"))

Trace_UnassignTask ==
    /\ task # Nil /\ Room(1)
    /\ Trace("TaskAssignmentService.UnassignTask", TaskAssignmentService_UnassignTask(task))

Trace_SetDeadline ==
    /\ task # Nil /\ Room(1)
    /\ \E deadline \in Deadlines :
          Trace("DeadlineEnforcementService.SetDeadline",
                DeadlineEnforcementService_SetDeadline(task, deadline, now))

Trace_ClearDomainEvents ==
    /\ task # Nil
    /\ Trace("Task.ClearDomainEvents", Ret(Task_ClearDomainEvents(task), NoError))

\* a task whose status is changed by ChangeStatus and TransitionTask
NextHistory ==
    \/ Trace_NewTask
    \/ Trace_ChangeStatus
    \/ Trace_TransitionTask
    \/ Trace_AssignTask
    \/ Trace_SetDeadline
    \/ Trace_ClearDomainEvents

SpecHistory == Init /\ [][NextHistory]_vars

\* a task that is changed through the domain services only
NextServiceHistory ==
    \/ Trace_NewTask
    \/ Trace_TransitionTask
    \/ Trace_AssignTask
    \/ Trace_UnassignTask
    \/ Trace_SetDeadline
    \/ Trace_ClearDomainEvents

SpecServiceHistory == Init /\ [][NextServiceHistory]_vars

(***************************************************************************)
(* The claims.                                                             *)
(***************************************************************************)
\* the transition table as section 4.2 of the specification prints it
TransitionTable ==
    {<<"BACKLOG", "TO_DO">>, <<"BACKLOG", "CANCELLED">>,
     <<"TO_DO", "IN_PROGRESS">>, <<"TO_DO", "BACKLOG">>, <<"TO_DO", "CANCELLED">>,
     <<"IN_PROGRESS", "IN_REVIEW">>, <<"IN_PROGRESS", "TO_DO">>, <<"IN_PROGRESS", "CANCELLED">>,
     <<"IN_REVIEW", "COMPLETED">>, <<"IN_REVIEW", "IN_PROGRESS">>, <<"IN_REVIEW", "CANCELLED">>}

\* the call returned an error (it neither succeeded nor panicked)
Failed(e) == e # NoError /\ e # Panic

\* this step is the call task.ChangeStatus(to)
IsChangeStatus(to) ==
    /\ task # Nil
    /\ last'.op = "Task.ChangeStatus"
    /\ Call("Task.ChangeStatus", Task_ChangeStatus(task, to))

\* this step is the call statusTransitionService.TransitionTask(task, to)
IsTransitionTask(to) ==
    /\ task # Nil
    /\ last'.op = "StatusTransitionService.TransitionTask"
    /\ Call("StatusTransitionService.TransitionTask",
            StatusTransitionService_TransitionTask(task, to))

\* C1: for every (from, to) of the transition table, ChangeStatus(to) on a task
\* whose status is from succeeds and leaves the status to, whatever the task's
\* assignment and deadline.
C1_TablePairsSucceed ==
    [][\A to \in Statuses :
          (IsChangeStatus(to) /\ <<task.status, to>> \in TransitionTable)
             => (last'.err = NoError /\ task'.status = to)]_vars

\* C2: for every (from, to) that is not in the transition table, ChangeStatus(to)
\* returns an error and leaves the task, its status and event queue included, as it was.
C2_OtherPairsFail ==
    [][\A to \in Statuses :
          (IsChangeStatus(to) /\ <<task.status, to>> \notin TransitionTable)
             => (Failed(last'.err) /\ task' = task)]_vars

\* C2 witness: a move out of COMPLETED has been refused
C2_Witness ==
    /\ task # Nil
    /\ last.op = "Task.ChangeStatus"
    /\ last.err = "cannot transition"
    /\ task.status = TaskStatusCompleted

\* C3: whatever public method of the aggregate is called, a change of the task's
\* status goes from a status to one of its successors in the transition table.
C3_StatusChangesFollowTable ==
    [][(task # Nil /\ task' # Nil /\ task'.status # task.status)
          => <<task.status, task'.status>> \in TransitionTable]_vars

C5_NewTaskStartsInToDo ==
    [][\A title \in Titles, priority \in Priorities :
          (/\ task = Nil
           /\ last'.op = "NewTask"
           /\ Call("NewTask", NewTask("task-1", "proj-1", title, "D1", priority, "u1")))
             => IF title # "" /\ priority \in {"LOW", "MEDIUM", "HIGH", "CRITICAL"}
                THEN /\ last'.err = NoError
                     /\ task' # Nil
                     /\ task'.status = "TO_DO"
                     /\ task'.assignee = Nil
                     /\ task'.deadline = Nil
                     /\ Len(Task_DomainEvents(task')) = 1
                     /\ Task_DomainEvents(task')[1].eventType = "TaskCreated"
                ELSE Failed(last'.err) /\ task' = Nil]_vars

\* C5 witness: NewTask has just returned a task
C5_Witness ==
    /\ last.op = "NewTask"
    /\ last.err = NoError
    /\ task # Nil

C7_CompletedNeedsDeadline ==
    [][(IsTransitionTask(TaskStatusCompleted) /\ task.status = TaskStatusInReview)
          => IF task.deadline = Nil
             THEN Failed(last'.err) /\ task' = task
             ELSE last'.err = NoError /\ task'.status = TaskStatusCompleted]_vars

\* C8: for a task changed through the domain services only, whenever
\* TransitionTask(COMPLETED) would be accepted the task has an assignment, no call
\* ever reads a missing assignee, and a COMPLETED task has an assignment and a deadline.
C8_ServicePathCompletesAssigned ==
    task # Nil =>
        /\ (/\ StatusTransitionService_CanTransition(task, TaskStatusCompleted)
            /\ task.deadline # Nil) => task.assignee # Nil
        /\ StatusTransitionService_TransitionTask(task, TaskStatusCompleted).err # Panic
        /\ last.err # Panic
        /\ task.status = TaskStatusCompleted => (task.assignee # Nil /\ task.deadline # Nil)

\* C8 witness: the service has completed a task
C8_Witness ==
    /\ task # Nil
    /\ last.op = "StatusTransitionService.TransitionTask"
    /\ last.err = NoError
    /\ task.status = TaskStatusCompleted

\* C9: ChangeStatus(COMPLETED) called on a task in IN_REVIEW with no assignment
\* returns an error and leaves the task, its status and event queue included, as it was.
C9_CompleteUnassignedFailsCleanly ==
    [][(IsChangeStatus(TaskStatusCompleted)
        /\ task.status = TaskStatusInReview /\ task.assignee = Nil)
          => (Failed(last'.err) /\ task' = task)]_vars

\* the methods C10 calls mutating
MutatingOps ==
    {"Task.Assign", "Task.ChangeStatus", "Task.SetDeadline", "Task.AddComment",
     "Task.UpdateTitle", "Task.UpdateDescription", "Task.UpdatePriority"}

\* C10 as stated: every successful mutating call makes DomainEvents() at least one
\* longer, and after ClearDomainEvents() its length is 0.
C10_EveryMutationAddsEvent ==
    [][task # Nil =>
          /\ (last'.op \in MutatingOps /\ last'.err = NoError)
                => Len(Task_DomainEvents(task')) >= Len(Task_DomainEvents(task)) + 1
          /\ last'.op = "Task.ClearDomainEvents" => Len(Task_DomainEvents(task')) = 0]_vars

\* C10 amended: a successful Assign, ChangeStatus or SetDeadline makes
\* DomainEvents() at least one longer; a successful AddComment, UpdateTitle,
\* UpdateDescription or UpdatePriority leaves the event queue as it was; after
\* ClearDomainEvents() its length is 0.
C10_EventfulMutationsAddEvent ==
    [][task # Nil =>
          /\ (last'.op \in {"Task.Assign", "Task.ChangeStatus", "Task.SetDeadline"}
              /\ last'.err = NoError)
                => Len(Task_DomainEvents(task')) >= Len(Task_DomainEvents(task)) + 1
          /\ (last'.op \in {"Task.AddComment", "Task.UpdateTitle", "Task.UpdateDescription",
                            "Task.UpdatePriority"}
              /\ last'.err = NoError)
                => Task_DomainEvents(task') = Task_DomainEvents(task)
          /\ last'.op = "Task.ClearDomainEvents" => Len(Task_DomainEvents(task')) = 0]_vars

\* C10 witness: a comment has been added and the queue still holds only the
\* TaskCreated event
C10_Witness ==
    /\ task # Nil
    /\ last.op = "Task.AddComment"
    /\ last.err = NoError
    /\ Len(task.comments) = 1
    /\ Len(Task_DomainEvents(task)) = 1

\* C11: a successful ChangeStatus(to) appends exactly one TaskStatusChanged event
\* carrying the status before the call and to; when to is COMPLETED exactly one
\* TaskCompleted event carrying the task's assignee follows it directly; for any
\* other target nothing else is appended.
C11_ChangeStatusEvents ==
    [][\A to \in Statuses :
          (IsChangeStatus(to) /\ last'.err = NoError)
             => LET changed == [eventType |-> "TaskStatusChanged", aggregateID |-> task.id,
                                OldStatus |-> task.status, NewStatus |-> to]
                    completed == [eventType |-> "TaskCompleted", aggregateID |-> task.id,
                                  CompletedBy |-> task'.assignee.assigneeID]
                IN  Task_DomainEvents(task') =
                       Task_DomainEvents(task) \o
                          (IF to = "COMPLETED" THEN <<changed, completed>>
                                               ELSE <<changed>>)]_vars

\* C11 witness: ChangeStatus has completed a task and the queue ends with the
\* TaskStatusChanged and TaskCompleted events
C11_Witness ==
    /\ task # Nil
    /\ last.op = "Task.ChangeStatus"
    /\ last.err = NoError
    /\ task.status = TaskStatusCompleted
    /\ Len(Task_DomainEvents(task)) = 2
    /\ Task_DomainEvents(task)[1].eventType = "TaskStatusChanged"
    /\ Task_DomainEvents(task)[2].eventType = "TaskCompleted"

\* C12: Assign with a non-empty assignee succeeds, makes that user the assignee in
\* place of any earlier one and appends exactly one TaskAssigned event whose
\* previous-assignee field is the assignee id held just before the call, or "" if
\* there was none; with an empty assignee id it fails and leaves the assignment and
\* the event queue as they were.
C12_AssignReplacesAndRecords ==
    [][\A assigneeID \in {"", "u1"} :
          (/\ task # Nil
           /\ last'.op = "Task.Assign"
           /\ Call("Task.Assign", Task_Assign(task, assigneeID, "u1")))
             => IF assigneeID # ""
                THEN /\ last'.err = NoError
                     /\ task'.assignee # Nil
                     /\ task'.assignee.assigneeID = assigneeID
                     /\ Task_DomainEvents(task') =
                           Append(Task_DomainEvents(task),
                                  [eventType |-> "TaskAssigned", aggregateID |-> task.id,
                                   AssigneeID |-> assigneeID,
                                   PreviousAssigneeID |->
                                      IF task.assignee = Nil THEN ""
                                      ELSE task.assignee.assigneeID])
                ELSE /\ Failed(last'.err)
                     /\ task'.assignee = task.assignee
                     /\ Task_DomainEvents(task') = Task_DomainEvents(task)]_vars

\* C12 witness: Assign has replaced an earlier assignment and the event names the
\* earlier assignee
C12_Witness ==
    /\ task # Nil
    /\ last.op = "Task.Assign"
    /\ last.err = NoError
    /\ task.assignee # Nil
    /\ task.assignee.assigneeID = "u1"
    /\ Len(Task_DomainEvents(task)) >= 1
    /\ Task_DomainEvents(task)[Len(Task_DomainEvents(task))].eventType = "TaskAssigned"
    /\ Task_DomainEvents(task)[Len(Task_DomainEvents(task))].PreviousAssigneeID = "unassigned"

\* this step is taken by the handler p
Steps(p) == procs'[p] # procs[p]

\* this step is the return of the handler p
Returns(p) == procs[p].pc # "idle" /\ procs'[p].pc = "idle"

\* C13: when a handler returns success, it has passed every event that was in the
\* task's queue when it read the queue to the publisher exactly once and in queue
\* order, nothing else is in the queue, and the queue is empty afterwards.
C13_SuccessPublishesQueueAndClears ==
    [][\A p \in Procs :
          (Returns(p) /\ procs'[p].err = NoError)
             => /\ procs[p].pc = "publishing"
                /\ procs[p].sent = procs[p].snapshot
                /\ procs[p].snapshot = Task_DomainEvents(heap[procs[p].ref])
                /\ Len(procs[p].sent) >= 1
                /\ Task_DomainEvents(heap'[procs[p].ref]) = << >>]_vars

\* C13 witness: UpdateTaskStatus has returned success, the stored task is
\* IN_PROGRESS and its queue is empty
C13_Witness ==
    /\ procs[1].pc = "idle"
    /\ procs[1].op = "UpdateTaskStatus"
    /\ procs[1].err = NoError
    /\ taskRepo["t1"] = "t1"
    /\ heap["t1"].status = TaskStatusInProgress
    /\ Task_DomainEvents(heap["t1"]) = << >>

\* the errors a handler returns when the aggregate or the domain service refuses
MutationErrors ==
    {"failed to update status", "failed to assign task", "failed to create task",
     "invalid deadline", "failed to set deadline"}

\* C14: when the mutation a handler asks for fails, the handler returns an error
\* having made no Save or Update call and having passed no event to the publisher,
\* and the stored task is as it was when the handler loaded it: neither the Task
\* objects, nor the repository, nor the project have changed.
C14_FailedMutationChangesNothing ==
    [][\A p \in Procs :
          (procs'[p].pc = "idle" /\ Steps(p) /\ procs'[p].err \in MutationErrors)
             => /\ procs'[p].saves = 0
                /\ procs[p].saves = 0
                /\ procs[p].sent = << >>
                /\ procs[p].snapshot = << >>
                /\ heap' = heap
                /\ taskRepo' = taskRepo
                /\ project' = project
                /\ procs[p].pc # "idle" => heap'[procs[p].ref] = procs[p].pre]_vars

\* C14 witness: UpdateTaskStatus has been refused on a stored task that has no
\* assignee, and the task is still in TO_DO with an empty queue
C14_Witness ==
    /\ procs[1].pc = "idle"
    /\ procs[1].op = "UpdateTaskStatus"
    /\ procs[1].err = "failed to update status"
    /\ taskRepo["t1"] = "t1"
    /\ heap["t1"].status = TaskStatusToDo
    /\ heap["t1"].assignee = Nil
    /\ Task_DomainEvents(heap["t1"]) = << >>

\* the commands with a malformed primitive input: one that a constructor of the
\* value package or time.Parse refuses
Malformed_CreateTask(cmd) ==
    \/ NewProjectID(cmd.ProjectID) # NoError
    \/ NewPriority(cmd.Priority) # NoError
    \/ NewUserID(cmd.CreatedBy) # NoError
    \/ (cmd.Deadline # "" /\ time_Parse(cmd.Deadline).err # NoError)

Malformed_AssignTask(cmd) ==
    \/ NewTaskID(cmd.TaskID) # NoError
    \/ NewUserID(cmd.AssigneeID) # NoError
    \/ NewUserID(cmd.AssignedBy) # NoError

Malformed_UpdateTaskStatus(cmd) ==
    \/ NewTaskID(cmd.TaskID) # NoError
    \/ NewTaskStatus(cmd.NewStatus) # NoError

\* the errors a handler returns when it refuses an input
ValidationErrors ==
    {"invalid project id", "invalid priority", "invalid user id", "invalid assignee id",
     "invalid assigner id", "invalid deadline format", "invalid task id", "invalid status"}

\* C15: a command with a malformed input fails with a validation error, and the
\* handler has made no GetByID call on any repository.
C15_ValidationBeforeLoading ==
    [][/\ \A cmd \in CreateTaskCommands :
             (/\ procs'[1].op = "CreateTask"
              /\ Steps(1)
              /\ Malformed_CreateTask(cmd)
              /\ HandleCreateTask(1, {cmd}))
                => (procs'[1].err \in ValidationErrors /\ procs'[1].gets = 0)
       /\ \A cmd \in AssignTaskCommands :
             (/\ procs'[1].op = "AssignTask"
              /\ Steps(1)
              /\ Malformed_AssignTask(cmd)
              /\ HandleAssignTask(1, {cmd}, TRUE))
                => (procs'[1].err \in ValidationErrors /\ procs'[1].gets = 0)
       /\ \A cmd \in UpdateTaskStatusCommands :
             (/\ procs'[1].op = "UpdateTaskStatus"
              /\ Steps(1)
              /\ Malformed_UpdateTaskStatus(cmd)
              /\ HandleUpdateTaskStatus(1, {cmd}, TRUE))
                => (procs'[1].err \in ValidationErrors /\ procs'[1].gets = 0)]_vars

\* C16: a handler starts to publish only when every persistence call of the
\* command has succeeded, and it reads the queue then; it passes events to the
\* publisher only after that; when Save or Update fails it returns at once, having
\* passed no event to the publisher and leaving the queue unread and uncleared; and
\* a queue is emptied only by the return of a handler that has published all of it.
C16_PublishAfterPersistence ==
    [][\A p \in Procs :
          /\ (procs'[p].pc = "publishing" /\ procs[p].pc # "publishing")
                => /\ procs[p].pc \in {"created", "mutated"}
                   /\ procs[p].sent = << >>
                   /\ procs[p].snapshot = << >>
                   /\ taskRepo'[procs'[p].ref] = procs'[p].ref
                   /\ procs'[p].op = "CreateTask"
                         => (procs'[p].saves = 2 /\ procs'[p].cmd.ProjectID \in projectRepo')
                   /\ procs'[p].op # "CreateTask" => procs'[p].saves = 1
                   /\ procs'[p].snapshot = Task_DomainEvents(heap'[procs'[p].ref])
          /\ (Steps(p) /\ procs[p].pc = "publishing")
                => (procs'[p].pc = "publishing" => procs'[p].snapshot = procs[p].snapshot)
          /\ (Steps(p) /\ procs'[p].sent # procs[p].sent /\ procs'[p].sent # << >>)
                => procs[p].pc = "publishing"
          /\ (Returns(p) /\ procs'[p].err \in {"failed to save task",
                                                "failed to update project"})
                => /\ procs[p].sent = << >>
                   /\ procs[p].snapshot = << >>
                   /\ heap' = heap
          /\ \A id \in TaskIDs :
                (/\ heap[id] # Nil
                 /\ Task_DomainEvents(heap[id]) # << >>
                 /\ Task_DomainEvents(heap'[id]) = << >>)
                   => \E q \in Procs :
                         /\ procs[q].pc = "publishing"
                         /\ procs[q].ref = id
                         /\ procs[q].sent = procs[q].snapshot
                         /\ Returns(q)
                         /\ procs'[q].err = NoError]_vars

\* C16 witness: the task was deleted while AssignTask handled it, Update failed,
\* and the TaskAssigned event is still in the queue of the task, unpublished
C16_Witness ==
    /\ procs[1].pc = "idle"
    /\ procs[1].op = "AssignTask"
    /\ procs[1].err = "failed to save task"
    /\ heap["t1"] # Nil
    /\ taskRepo["t1"] = NoRef
    /\ Len(Task_DomainEvents(heap["t1"])) = 1
    /\ Task_DomainEvents(heap["t1"])[1].eventType = "TaskAssigned"

\* C17: no event is passed to the publisher after the publisher has accepted it:
\* a handler never publishes one of the leading events of the queue that an
\* earlier command has already published with success.
C17_NoSecondPublication ==
    [][\A p \in Procs :
          (/\ procs[p].pc = "publishing"
           /\ Len(procs[p].sent) < Len(procs[p].snapshot)
           /\ Steps(p))
             => Len(procs[p].sent) + 1 > delivered[procs[p].ref]]_vars

\* C18: whenever the status of a stored task changes, while two UpdateTaskStatus or
\* AssignTask commands are handled at once for it, the change follows an edge of
\* the transition table.
C18_ConcurrentStatusFollowsTable ==
    [][\A id \in TaskIDs :
          (heap[id] # Nil /\ heap'[id] # Nil /\ heap'[id].status # heap[id].status)
             => <<heap[id].status, heap'[id].status>> \in TransitionTable]_vars

AssignTask_Alone(t, cmd) ==
    LET r == TaskAssignmentService_AssignTask(t, cmd.AssigneeID, cmd.AssignedBy)
    IN  IF r.err # NoError THEN Ret(r.task, "failed to assign task")
        ELSE Ret(Task_ClearDomainEvents(r.task), NoError)

UpdateTaskStatus_Alone(t, cmd) ==
    LET r == StatusTransitionService_TransitionTask(t, cmd.NewStatus)
    IN  IF r.err = Panic THEN r
        ELSE IF r.err # NoError THEN Ret(r.task, "failed to update status")
        ELSE Ret(Task_ClearDomainEvents(r.task), NoError)

Alone(op, t, cmd) ==
    IF op = "AssignTask" THEN AssignTask_Alone(t, cmd) ELSE UpdateTaskStatus_Alone(t, cmd)

\* C20: two callers send AssignTask and UpdateTaskStatus commands for different
\* tasks.  A step of one handler changes neither the other task nor the other
\* handler; when a handler returns, its result and the state of its task are those
\* of the command handled alone on the task as it was loaded; and a handler that
\* has loaded its task can always take its next step, whatever the other is doing.
C20_DifferentTasksIndependent ==
    [][\A p \in Procs :
          /\ Steps(p)
                => /\ \A q \in Procs \ {p} : procs'[q] = procs[q]
                   /\ \A id \in TaskIDs \ {TaskOf(p)} : heap'[id] = heap[id]
          /\ Returns(p)
                => /\ procs[p].ref = TaskOf(p)
                   /\ procs'[p].err = Alone(procs[p].op, procs[p].pre, procs[p].cmd).err
                   /\ heap'[TaskOf(p)] = Alone(procs[p].op, procs[p].pre, procs[p].cmd).task
          /\ procs[p].pc # "idle" => ENABLED HandlerStep(p)]_vars

\* C20 witness: AssignTask for t1 and UpdateTaskStatus for t2 are both between
\* their mutation and their Update
C20_Witness ==
    /\ procs[1].pc = "mutated"
    /\ procs[1].op = "AssignTask"
    /\ procs[1].ref = "t1"
    /\ procs[2].pc = "mutated"
    /\ procs[2].op = "UpdateTaskStatus"
    /\ procs[2].ref = "t2"

\* C21: when the update of the project fails in CreateTask, the task has been
\* saved before: the handler returns an error after one successful save, the task
\* is in the task repository under its id, and its events are neither published nor
\* cleared; when the handler goes on to publish, both saves have succeeded.
C21_ProjectUpdateFailureKeepsTask ==
    [][\A p \in Procs :
          /\ (Returns(p) /\ procs'[p].err = "failed to update project")
                => /\ procs[p].op = "CreateTask"
                   /\ procs[p].pc = "created"
                   /\ procs'[p].saves = 1
                   /\ taskRepo[procs[p].ref] = NoRef
                   /\ taskRepo'[procs[p].ref] = procs[p].ref
                   /\ heap'[procs[p].ref] = heap[procs[p].ref]
                   /\ Len(Task_DomainEvents(heap'[procs[p].ref])) >= 1
                   /\ Task_DomainEvents(heap'[procs[p].ref])[1].eventType = "TaskCreated"
                   /\ procs[p].sent = << >>
                   /\ procs[p].snapshot = << >>
                   /\ delivered'[procs[p].ref] = 0
          /\ (Steps(p) /\ procs[p].pc = "created" /\ procs'[p].pc = "publishing")
                => /\ procs'[p].saves = 2
                   /\ taskRepo'[procs[p].ref] = procs[p].ref
                   /\ procs[p].cmd.ProjectID \in projectRepo']_vars

\* C21 witness: CreateTask has returned the project-update error, the project is
\* gone from its repository, and the task is stored with its events still queued
C21_Witness ==
    /\ procs[1].pc = "idle"
    /\ procs[1].op = "CreateTask"
    /\ procs[1].err = "failed to update project"
    /\ "proj-1" \notin projectRepo
    /\ taskRepo["t1"] = "t1"
    /\ Len(Task_DomainEvents(heap["t1"])) = 3
    /\ delivered["t1"] = 0

\* the kinds of the events of a list, in order
EventTypes(events) == [i \in 1..Len(events) |-> events[i].eventType]

\* the number of times id is in the project's task collection
Occurrences(taskIDs, id) == Cardinality({i \in 1..Len(taskIDs) : taskIDs[i] = id})

\* C22: a CreateTask command that gets as far as publishing has stored its task
\* under the new id and has put the id into the project's collection exactly once,
\* and the handler removes neither afterwards; when it returns success, that task
\* is in TO_DO, is assigned (to the command's assignee) exactly when the command
\* has an assignee id and has a deadline (the command's) exactly when the command
\* has one, and the events were published in the order TaskCreated, TaskAssigned,
\* TaskDeadlineSet.
C22_CreateTaskResult ==
    [][\A p \in Procs :
          /\ (Steps(p) /\ procs'[p].op = "CreateTask" /\ procs[p].pc = "created"
                       /\ procs'[p].pc = "publishing")
                => /\ taskRepo'[procs'[p].ref] = procs'[p].ref
                   /\ heap'[procs'[p].ref].id = procs'[p].ref
                   /\ Occurrences(project'.taskIDs, procs'[p].ref) = 1
          /\ (Steps(p) /\ procs[p].op = "CreateTask" /\ procs[p].pc = "publishing")
                => (taskRepo' = taskRepo /\ project' = project)
          /\ (Returns(p) /\ procs[p].op = "CreateTask" /\ procs'[p].err = NoError)
                => LET cmd == procs[p].cmd
                       id == procs[p].ref
                       t == heap'[id]
                   IN  /\ t.id = id
                       /\ t.status = TaskStatusToDo
                       /\ (t.assignee # Nil) <=> (cmd.AssigneeID # "")
                       /\ t.assignee # Nil => t.assignee.assigneeID = cmd.AssigneeID
                       /\ (t.deadline # Nil) <=> (cmd.Deadline # "")
                       /\ t.deadline # Nil => t.deadline.dueDate = RFC3339[cmd.Deadline]
                       /\ Occurrences(project'.taskIDs, id) = 1
                       /\ EventTypes(procs[p].sent) =
                             <<"TaskCreated">>
                                \o (IF cmd.AssigneeID # "" THEN <<"TaskAssigned">> ELSE << >>)
                                \o (IF cmd.Deadline # "" THEN <<"TaskDeadlineSet">>
                                                         ELSE << >>)]_vars

\* C22 witness: CreateTask with an assignee and a deadline has returned success
C22_Witness ==
    /\ procs[1].pc = "idle"
    /\ procs[1].op = "CreateTask"
    /\ procs[1].err = NoError
    /\ taskRepo["t1"] = "t1"
    /\ heap["t1"].status = TaskStatusToDo
    /\ heap["t1"].assignee # Nil
    /\ heap["t1"].deadline # Nil
    /\ project.taskIDs = <<"t1">>

\* this step is the call NewDeadline(dueDate)
IsNewDeadline(dueDate) ==
    /\ last'.op = "NewDeadline"
    /\ last'.dueDate = dueDate
    /\ last'.at = now
    /\ last'.err = NewDeadline(dueDate, now).err
    /\ last'.deadline = NewDeadline(dueDate, now).deadline

IsServiceSetDeadline(d) ==
    /\ task # Nil
    /\ last'.op = "DeadlineEnforcementService.SetDeadline"
    /\ Call("DeadlineEnforcementService.SetDeadline",
            DeadlineEnforcementService_SetDeadline(task, d, now))

\* this step is the call deadlineService.ExtendDeadline(task, d)
IsExtendDeadline(d) ==
    /\ task # Nil
    /\ last'.op = "DeadlineEnforcementService.ExtendDeadline"
    /\ Call("DeadlineEnforcementService.ExtendDeadline",
            DeadlineEnforcementService_ExtendDeadline(task, d, now))

\* this step is the call assignmentService.AssignTask(task, assigneeID, assignedBy)
IsAssignTask(assigneeID, assignedBy) ==
    /\ task # Nil
    /\ last'.op = "TaskAssignmentService.AssignTask"
    /\ Call("TaskAssignmentService.AssignTask",
            TaskAssignmentService_AssignTask(task, assigneeID, assignedBy))

Terminal(status) == status \in {TaskStatusCompleted, TaskStatusCancelled}

\* C24: DeadlineEnforcementService.SetDeadline(task, d) fails whenever d is overdue
\* or lies more than five years after the present day, and then the task is as it
\* was, deadline and event queue included; a d that is not overdue and at most five
\* years ahead is accepted on a task that is in no terminal status: the deadline
\* is d and one TaskDeadlineSet event has been appended.
C24_SetDeadlineWindow ==
    [][\A d \in Deadlines :
          IsServiceSetDeadline(d)
             => /\ (Deadline_IsOverdue(d, now) \/ d.dueDate > now + FiveYears)
                      => /\ Failed(last'.err)
                         /\ task'.deadline = task.deadline
                         /\ Task_DomainEvents(task') = Task_DomainEvents(task)
                /\ (/\ ~Deadline_IsOverdue(d, now)
                    /\ d.dueDate <= now + FiveYears
                    /\ ~Terminal(task.status))
                      => /\ last'.err = NoError
                         /\ task'.deadline = d
                         /\ Task_DomainEvents(task') =
                               Append(Task_DomainEvents(task),
                                      [eventType |-> "TaskDeadlineSet",
                                       aggregateID |-> task.id,
                                       DueDate |-> d.dueDate])]_vars

\* C24 witness: a deadline one day beyond the five years has just been refused,
\* and the task has no deadline
C24_Witness ==
    /\ task # Nil
    /\ last.op = "DeadlineEnforcementService.SetDeadline"
    /\ last.err = "invalid deadline"
    /\ now = 0
    /\ task.deadline = Nil

\* C25: SetDeadline and ExtendDeadline of the deadline service return an error
\* for a task that is COMPLETED or CANCELLED and leave its deadline and its event
\* queue as they were; and no step of a task that is used through the services
\* changes the deadline of a task in a terminal status.
C25_NoDeadlineChangeWhenTerminal ==
    [][(task # Nil /\ Terminal(task.status))
          => /\ \A d \in Deadlines :
                   (IsServiceSetDeadline(d) \/ IsExtendDeadline(d))
                      => /\ Failed(last'.err)
                         /\ task'.deadline = task.deadline
                         /\ Task_DomainEvents(task') = Task_DomainEvents(task)
             /\ task'.deadline = task.deadline]_vars

\* C25 witness: ExtendDeadline has been refused, for its status, on a cancelled
\* task that has a deadline
C25_Witness ==
    /\ task # Nil
    /\ task.status = TaskStatusCancelled
    /\ task.deadline # Nil
    /\ last.op = "DeadlineEnforcementService.ExtendDeadline"
    /\ last.err = "cannot set deadline for completed or cancelled tasks"

OverdueAndOpen(t, clock) ==
    /\ t.deadline # Nil
    /\ Deadline_IsOverdue(t.deadline, clock)
    /\ ~Terminal(t.status)

\* C28: CheckOverdueStatus never returns an error.  For a task with an overdue
\* deadline and a non-terminal status it appends one TaskOverdue event and calls
\* NotifyTaskOverdue exactly when the task is assigned, and the event stays when
\* the notification fails; for any other task it changes nothing and notifies
\* nobody.
C28_CheckOverdueNeverFails ==
    [][(task # Nil /\ last'.op = "DeadlineEnforcementService.CheckOverdueStatus")
          => /\ last'.err = NoError
             /\ OverdueAndOpen(task, now)
                   => /\ Len(Task_DomainEvents(task')) = Len(Task_DomainEvents(task)) + 1
                      /\ SubSeq(Task_DomainEvents(task'), 1, Len(Task_DomainEvents(task)))
                            = Task_DomainEvents(task)
                      /\ Task_DomainEvents(task')[Len(Task_DomainEvents(task'))].eventType
                            = "TaskOverdue"
                      /\ [task' EXCEPT !.domainEvents = << >>]
                            = [task EXCEPT !.domainEvents = << >>]
                      /\ (last'.notified # "no") <=> (task.assignee # Nil)
             /\ ~OverdueAndOpen(task, now)
                   => (task' = task /\ last'.notified = "no")]_vars

\* C28 witness: the notification has failed, CheckOverdueStatus has returned nil
\* and the TaskOverdue event is the last of the queue
C28_Witness ==
    /\ task # Nil
    /\ last.op = "DeadlineEnforcementService.CheckOverdueStatus"
    /\ last.notified = "failed"
    /\ last.err = NoError
    /\ Len(Task_DomainEvents(task)) >= 1
    /\ Task_DomainEvents(task)[Len(Task_DomainEvents(task))].eventType = "TaskOverdue"

\* C27: TaskAssignmentService.AssignTask fails when the assignee is in the user
\* repository and has been deactivated, and the assignment of the task is as it was.
C27_OnlyActiveAssignee ==
    [][\A a \in UserIDs, b \in UserIDs :
          (IsAssignTask(a, b) /\ a \in StoredUsers /\ a \notin active)
             => (Failed(last'.err) /\ task'.assignee = task.assignee)]_vars

\* no id is twice in the collection
NoDuplicates(taskIDs) ==
    \A i \in 1..Len(taskIDs), j \in 1..Len(taskIDs) : taskIDs[i] = taskIDs[j] => i = j

\* C29: no task id is ever twice in the project's task collection.  AddTask of
\* the empty id or of an id that is in the collection fails and leaves the
\* collection as it was, AddTask of any other id appends it; RemoveTask of an id
\* that is not in the collection fails and leaves the collection as it was, and
\* RemoveTask of one that is there takes it out and keeps the others in order.
C29_TaskIDsAtMostOnce ==
    [][/\ NoDuplicates(project'.taskIDs)
       /\ last'.op = "Project.AddTask"
             => LET id == last'.taskID
                    present == \E i \in 1..Len(project.taskIDs) : project.taskIDs[i] = id
                IN  IF id = "" \/ present
                    THEN last'.err # NoError /\ project' = project
                    ELSE last'.err = NoError
                         /\ project'.taskIDs = Append(project.taskIDs, id)
       /\ last'.op = "Project.RemoveTask"
             => LET id == last'.taskID
                    present == \E i \in 1..Len(project.taskIDs) : project.taskIDs[i] = id
                IN  IF ~present
                    THEN last'.err # NoError /\ project' = project
                    ELSE last'.err = NoError
                         /\ project'.taskIDs =
                               SelectSeq(project.taskIDs, LAMBDA x : x # id)]_vars

\* C29 witness: AddTask has just been refused for an id that is in a collection
\* of three ids
C29_Witness ==
    /\ last.op = "Project.AddTask"
    /\ last.err = "task already exists in project"
    /\ Len(project.taskIDs) = 3
    /\ last.taskID = project.taskIDs[2]

\* C30: PublishAll calls Publish for the events one after the other in list order
\* up to and including the first event whose Publish fails, and returns the error
\* of that call; no event after it is published; when no Publish fails it has
\* published the whole list and returns nil.
C30_PublishAllStopsAtFirstFailure ==
    [][last'.op = "PublishAll"
          => LET events == last'.events
                 failing == {i \in 1..Len(events) :
                                SimpleEventPublisher_Publish(events[i], subscribers,
                                                             last'.handlerErrs[i]) # NoError}
             IN  IF failing = {}
                 THEN last'.err = NoError /\ last'.calls = events
                 ELSE LET first == CHOOSE k \in failing : \A j \in failing : k <= j
                      IN  /\ last'.err = SimpleEventPublisher_Publish(
                                             events[first], subscribers,
                                             last'.handlerErrs[first])
                          /\ last'.calls = SubSeq(events, 1, first)]_vars

\* C30 witness: of three events the second failed, and the third was not published
C30_Witness ==
    /\ last.op = "PublishAll"
    /\ last.err = "failed to publish event"
    /\ Len(last.events) = 3
    /\ Len(last.calls) = 2
    /\ last.events[3].eventType = "TaskAssigned"
    /\ last.handlerErrs[3] # NoError

\* C31: Unsubscribe(kind) leaves no handler for the kind and leaves the handlers
\* of every other kind as they were; Publish of an event whose kind has no handler
\* returns nil and calls no handler, and otherwise calls the handlers of the kind.
C31_UnsubscribeRemovesAllOfKind ==
    [][/\ last'.op = "Unsubscribe"
             => /\ last'.err = NoError
                /\ last'.kind \notin DOMAIN subscribers'
                /\ \A kind \in SubscribedKinds \ {last'.kind} :
                      /\ (kind \in DOMAIN subscribers') <=> (kind \in DOMAIN subscribers)
                      /\ kind \in DOMAIN subscribers
                            => subscribers'[kind] = subscribers[kind]
       /\ last'.op = "Publish"
             => IF last'.kind \in DOMAIN subscribers
                THEN last'.invoked = subscribers[last'.kind]
                ELSE last'.err = NoError /\ last'.invoked = << >>]_vars

\* C31 witness: a kind that had two handlers has been unsubscribed and has none
\* left, while the other kind still has its two handlers
C31_Witness ==
    /\ last.op = "Unsubscribe"
    /\ last.kind = "TaskCreated"
    /\ Len(last.had) = 2
    /\ DOMAIN subscribers = {"TaskAssigned"}
    /\ Len(subscribers["TaskAssigned"]) = 2

\* an event of a kind without handlers has been published: no error, no call
PublishedToNoHandler ==
    /\ last.op = "Publish"
    /\ last.kind \notin DOMAIN subscribers
    /\ last.err = NoError
    /\ last.invoked = << >>
    /\ DOMAIN subscribers = {"TaskAssigned"}

\* the status that follows a status in the order BACKLOG, TO_DO, IN_PROGRESS,
\* IN_REVIEW, COMPLETED of the workflow
NextInOrder(status) ==
    CASE status = TaskStatusBacklog    -> TaskStatusToDo
      [] status = TaskStatusToDo       -> TaskStatusInProgress
      [] status = TaskStatusInProgress -> TaskStatusInReview
      [] status = TaskStatusInReview   -> TaskStatusCompleted
      [] OTHER                         -> Nil

\* C32: every successful TransitionTask(to) with to other than CANCELLED moves
\* the task to the status that follows its status in the order BACKLOG, TO_DO,
\* IN_PROGRESS, IN_REVIEW, COMPLETED: no status is skipped, none is gone back to.
C32_OnlyForwardByOne ==
    [][\A to \in Statuses \ {TaskStatusCancelled} :
          (IsTransitionTask(to) /\ last'.err = NoError)
             => /\ to = NextInOrder(task.status)
                /\ task'.status = to]_vars

\* C33: TransitionTask(task, CANCELLED) succeeds on every task in BACKLOG, TO_DO,
\* IN_PROGRESS or IN_REVIEW, with or without an assignment or a deadline, and
\* leaves the task in CANCELLED, a terminal status.
C33_CancelAlwaysAllowed ==
    [][(IsTransitionTask(TaskStatusCancelled) /\ ~Terminal(task.status))
          => /\ last'.err = NoError
             /\ task'.status = TaskStatusCancelled
             /\ Terminal(task'.status)]_vars

\* C33 witness: a task in IN_REVIEW that has an assignment and no deadline has
\* been cancelled by the service
C33_Witness ==
    /\ task # Nil
    /\ last.op = "StatusTransitionService.TransitionTask"
    /\ last.err = NoError
    /\ task.status = TaskStatusCancelled
    /\ task.assignee # Nil
    /\ task.deadline = Nil
    /\ \E i \in 1..Len(Task_DomainEvents(task)) :
          /\ Task_DomainEvents(task)[i].eventType = "TaskStatusChanged"
          /\ Task_DomainEvents(task)[i].OldStatus = TaskStatusInReview
          /\ Task_DomainEvents(task)[i].NewStatus = TaskStatusCancelled

\* this step is the call task.UpdateTitle(newTitle)
IsUpdateTitle(newTitle) ==
    /\ task # Nil
    /\ last'.op = "Task.UpdateTitle"
    /\ Call("Task.UpdateTitle", Task_UpdateTitle(task, newTitle))

\* this step is the call task.UpdateDescription(newDescription)
IsUpdateDescription(newDescription) ==
    /\ task # Nil
    /\ last'.op = "Task.UpdateDescription"
    /\ Call("Task.UpdateDescription", Task_UpdateDescription(task, newDescription))

\* this step is the call task.UpdatePriority(newPriority)
IsUpdatePriority(newPriority) ==
    /\ task # Nil
    /\ last'.op = "Task.UpdatePriority"
    /\ Call("Task.UpdatePriority", Task_UpdatePriority(task, newPriority))

\* C34: UpdateTitle, UpdateDescription and UpdatePriority replace their field and
\* leave every other field of the task, event queue, status, assignment and
\* deadline included, as it was; UpdateTitle("") and UpdatePriority of a priority
\* other than LOW, MEDIUM, HIGH, CRITICAL fail and leave the task as it was; after
\* every step the title is non-empty and the priority is one of the four.
C34_FieldUpdatesTouchOnlyTheirField ==
    [][/\ \A newTitle \in NewTitles :
             IsUpdateTitle(newTitle)
                => IF newTitle = ""
                   THEN Failed(last'.err) /\ task' = task
                   ELSE last'.err = NoError /\ task' = [task EXCEPT !.title = newTitle]
       /\ \A newDescription \in NewDescriptions :
             IsUpdateDescription(newDescription)
                => /\ last'.err = NoError
                   /\ task' = [task EXCEPT !.description = newDescription]
       /\ \A newPriority \in NewPriorities :
             IsUpdatePriority(newPriority)
                => IF newPriority \notin {PriorityLow, PriorityMedium, PriorityHigh,
                                          PriorityCritical}
                   THEN Failed(last'.err) /\ task' = task
                   ELSE last'.err = NoError /\ task' = [task EXCEPT !.priority = newPriority]
       /\ task' # Nil
             => /\ task'.title # ""
                /\ task'.priority \in {PriorityLow, PriorityMedium, PriorityHigh,
                                       PriorityCritical}]_vars

\* C34 witness: a task with an assignment, a deadline and two events in its
\* queue has just been given another title
C34_Witness ==
    /\ task # Nil
    /\ last.op = "Task.UpdateTitle"
    /\ last.err = NoError
    /\ task.title = "T2"
    /\ task.assignee # Nil
    /\ task.deadline # Nil
    /\ task.status = TaskStatusToDo
    /\ Len(Task_DomainEvents(task)) = 2

\* C36: UnassignTask fails on a task that has no assignment; after it has
\* succeeded the task has no assignee, and TransitionTask(IN_PROGRESS) on the
\* task then fails with the must-be-assigned error.
C36_UnassignLeavesNoAssignee ==
    [][(/\ task # Nil
        /\ last'.op = "TaskAssignmentService.UnassignTask"
        /\ Call("TaskAssignmentService.UnassignTask", TaskAssignmentService_UnassignTask(task)))
          => /\ task.assignee = Nil => (Failed(last'.err) /\ task' = task)
             /\ last'.err = NoError
                  => /\ task'.assignee = Nil
                     /\ task'.status = TaskStatusToDo
                          => StatusTransitionService_TransitionTask(task', TaskStatusInProgress).err
                               = "task must be assigned before moving to in-progress"]_vars

\* C35: whenever the status of a task is COMPLETED, the statuses the task has had
\* since NewTask contain IN_PROGRESS, later IN_REVIEW, and IN_REVIEW is the status
\* the task had directly before COMPLETED.
C35_CompletedOnlyThroughReview ==
    (task # Nil /\ task.status = TaskStatusCompleted)
       => /\ last.history[Len(last.history)] = TaskStatusCompleted
          /\ \A k \in 1..Len(last.history) :
                last.history[k] = TaskStatusCompleted
                   => /\ k > 2
                      /\ last.history[k - 1] = TaskStatusInReview
                      /\ \E i \in 1..(k - 2) : last.history[i] = TaskStatusInProgress

\* C35 witness: a task is COMPLETED after it went back from IN_REVIEW to
\* IN_PROGRESS once
C35_Witness ==
    /\ task # Nil
    /\ task.status = TaskStatusCompleted
    /\ last.history = <<TaskStatusToDo, TaskStatusInProgress, TaskStatusInReview,
                        TaskStatusInProgress, TaskStatusInReview, TaskStatusCompleted>>
    /\ last.op = "Task.ChangeStatus"
    /\ last.err = NoError

\* the TaskStatusChanged events among the recorded ones, in recording order
StatusChanges(events) ==
    SelectSeq(events, LAMBDA e : e.eventType = "TaskStatusChanged")

\* the TaskCompleted events among the recorded ones
Completions(events) ==
    SelectSeq(events, LAMBDA e : e.eventType = "TaskCompleted")

\* C37: the TaskStatusChanged events recorded for a task, in recording order, form
\* a chain: the first has old status TO_DO, each later one has as old status the
\* new status of the one before it, every (old, new) is an edge of the transition
\* table, and the new status of the last one is the task's status.
C37_StatusEventsFormChain ==
    task # Nil =>
        LET changes == StatusChanges(last.recorded)
        IN  /\ changes = << >> => task.status = TaskStatusToDo
            /\ changes # << >>
                 => /\ changes[1].OldStatus = TaskStatusToDo
                    /\ changes[Len(changes)].NewStatus = task.status
            /\ \A i \in 1..Len(changes) :
                  /\ <<changes[i].OldStatus, changes[i].NewStatus>> \in TransitionTable
                  /\ i > 1 => changes[i].OldStatus = changes[i - 1].NewStatus

\* C37 witness: four status changes have been recorded, the queue has been
\* cleared since the first ones, and the task is back in TO_DO
C37_Witness ==
    /\ task # Nil
    /\ Len(StatusChanges(last.recorded)) = 4
    /\ Len(Task_DomainEvents(task)) < 4
    /\ task.status = TaskStatusToDo
    /\ last.op = "StatusTransitionService.TransitionTask"
    /\ last.err = NoError

\* C38: for a task changed through the domain services only, at most one
\* TaskCompleted event is ever recorded, and whenever the task is COMPLETED its
\* assignee is the CompletedBy of that event.
C38_CompletedByIsAssignee ==
    task # Nil =>
        LET completions == Completions(last.recorded)
        IN  /\ Len(completions) <= 1
            /\ task.status = TaskStatusCompleted
                 => /\ Len(completions) = 1
                    /\ task.assignee # Nil
                    /\ task.assignee.assigneeID = completions[1].CompletedBy

\* C39: after CreateTask commands, failed ones and one whose project Update
\* failed included, every task id in the collection of a stored project is the id
\* of a task in the task repository, and every task in the task repository is
\* listed in the collection of its project.
C39_ProjectListsStoredTasks ==
    /\ "proj-1" \in projectRepo
         => \A i \in 1..Len(project.taskIDs) : taskRepo[project.taskIDs[i]] # NoRef
    /\ \A id \in TaskIDs :
          taskRepo[id] # NoRef
             => /\ heap[taskRepo[id]].id = id
                /\ \E i \in 1..Len(project.taskIDs) : project.taskIDs[i] = id

\* C39 witness: a first command has stored its task, and a later one has
\* returned "failed to update project" after it had saved its task
C39_Witness ==
    /\ procs[1].pc = "idle"
    /\ procs[1].op = "CreateTask"
    /\ procs[1].err = "failed to update project"
    /\ taskRepo["t1"] # NoRef
    /\ taskRepo["t2"] # NoRef
    /\ project.taskIDs = <<"t1", "t2">>

\* two commands have succeeded and two tasks are stored in a stored project
TwoTasksCreated ==
    /\ procs[1].pc = "idle"
    /\ procs[1].err = NoError
    /\ "proj-1" \in projectRepo
    /\ project.taskIDs = <<"t1", "t2">>
    /\ taskRepo["t1"] # NoRef /\ taskRepo["t2"] # NoRef

\* C40: while two handlers work on the same stored task, every event of the
\* task's queue is passed to the publisher once: a handler never publishes a
\* queue entry that has been published already, and the ClearDomainEvents of a
\* handler never removes a queue entry that has not been published.
C40_EachEventPublishedOnce ==
    [][\A p \in Procs :
          (procs[p].pc = "publishing" /\ Steps(p))
             => IF Len(procs[p].sent) < Len(procs[p].snapshot)
                THEN Len(procs[p].sent) + 1 > delivered[procs[p].ref]
                ELSE Len(Task_DomainEvents(heap[procs[p].ref])) <= delivered[procs[p].ref]]_vars

\* the first half of C40 alone: no queue entry is published twice
NoEntryPublishedTwice ==
    [][\A p \in Procs :
          (procs[p].pc = "publishing" /\ Steps(p)
           /\ Len(procs[p].sent) < Len(procs[p].snapshot))
             => Len(procs[p].sent) + 1 > delivered[procs[p].ref]]_vars

\* the second half of C40 alone: no queue entry is cleared unpublished
NoEntryClearedUnpublished ==
    [][\A p \in Procs :
          (procs[p].pc = "publishing" /\ Steps(p)
           /\ Len(procs[p].sent) = Len(procs[p].snapshot))
             => Len(Task_DomainEvents(heap[procs[p].ref])) <= delivered[procs[p].ref]]_vars

====
